---------------------------- MODULE Spec2Model ----------------------------
(***************************************************************************)
(* A model of rusty_hue's colour engine (src/src/colors.rs) and of the     *)
(* bridge requests built from it (src/src/hue.rs).                         *)
(*                                                                         *)
(* The code computes in f32.  An f32 value is modelled as a record         *)
(* [m |-> mantissa, e |-> exponent] that stands for m * 2^e, in the        *)
(* canonical form "m is odd", with |m| < 2^24 and e >= -149; the two zeros  *)
(* are m = 0 with e = 0 (+0.0) and with e = -1 (-0.0).  Every arithmetic   *)
(* operator below returns the IEEE-754 result of the operation: the exact  *)
(* result rounded to 24 significant bits, or to a multiple of 2^-149 when  *)
(* it is below 2^-126, ties to even, with NaN, the two infinities and the  *)
(* sign of zero.                                                           *)
(***************************************************************************)
EXTENDS Integers, Sequences, FiniteSets, TLC

----------------------------------------------------------------------------
(* f32: representation *)

\* Significand precision of an f32, in bits.
MantBits == 24
\* Largest binary exponent of a finite f32: values reach just below 2^128.
MaxExp == 128
\* Exponent of the last bit of the smallest f32 above zero, 2^-149.
MinExp == -149
\* Exponent field that marks NaN and the infinities.
SpecialExp == 999

NaN == [m |-> 0, e |-> SpecialExp]
Inf == [m |-> 1, e |-> SpecialExp]
NegInf == [m |-> -1, e |-> SpecialExp]
Zero == [m |-> 0, e |-> 0]
NegZero == [m |-> 0, e |-> -1]

IsNaN(x) == x = NaN
IsInf(x) == x.e = SpecialExp /\ x.m # 0
IsFinite(x) == x.e # SpecialExp

\* The sign bit of a value that is not NaN.
Negative(x) == x.m < 0 \/ x = NegZero

\* The zero and the infinity of a sign.
SignedZero(negative) == IF negative THEN NegZero ELSE Zero
SignedInf(negative) == IF negative THEN NegInf ELSE Inf

Abs(n) == IF n < 0 THEN -n ELSE n
Sgn(n) == IF n < 0 THEN -1 ELSE IF n > 0 THEN 1 ELSE 0

\* Number of bits of a natural number: BitLen(0) = 0, BitLen(5) = 3.
BitLen(n) == Cardinality({k \in 0..30 : 2^k <= n})

\* Number of zero bits at the end of a non-zero integer.
TrailingZeros(m) == Cardinality({k \in 1..30 : m % 2^k = 0})

\* m * 2^e with the z zero bits at the end of m taken into the exponent.
Shifted(m, e, z) == [m |-> m \div 2^z, e |-> e + z]

\* The canonical record of m * 2^e, for an m that needs no rounding.
Canon(m, e) ==
    IF m = 0 THEN Zero ELSE Shifted(m, e, TrailingZeros(m))

\* A canonical record, or the infinity of its sign when it is past the f32
\* range.
Ranged(c) ==
    IF BitLen(Abs(c.m)) + c.e > MaxExp
    THEN (IF c.m < 0 THEN NegInf ELSE Inf)
    ELSE c

\* m * 2^e rounded to an f32: to MantBits significant bits, or to a multiple
\* of 2^MinExp when that is coarser, ties to even.  A caller that has dropped
\* low bits of the exact result folds them into an odd last bit of m and hands
\* over at least MantBits + 2 bits, so that the rounding decision is that of
\* the exact result.
\* The quotient q of the bits kept, one up when the bits dropped, r, are more
\* than half a unit, or just half and q is odd.
RoundUp(q, r, half) ==
    IF r > half \/ (r = half /\ q % 2 = 1) THEN q + 1 ELSE q

\* The number of low bits of an n-bit m * 2^e that an f32 does not hold:
\* those after the MantBits leading ones, and those below 2^MinExp.
DropBits(n, e) ==
    CASE n - MantBits >= MinExp - e /\ n > MantBits -> n - MantBits
      [] MinExp - e > n - MantBits /\ MinExp > e -> MinExp - e
      [] OTHER -> 0

\* sgn * q * 2^e for a q that was rounded: a zero keeps the sign.
Rounded(sgn, q, e) ==
    IF q = 0 THEN SignedZero(sgn < 0) ELSE Ranged(Canon(sgn * q, e))

\* The n-bit m, times 2^e, with its last s bits rounded away.  When all the
\* n bits go, what is left is one unit of 2^(e + s) or zero: the unit when m
\* is more than half of it.
RoundDrop(m, e, n, s) ==
    CASE s = 0 -> Ranged(Canon(m, e))
      [] s > n -> SignedZero(m < 0)
      [] s = n -> Rounded(Sgn(m), IF Abs(m) > 2^(n - 1) THEN 1 ELSE 0, e + s)
      [] OTHER -> Rounded(Sgn(m),
                          RoundUp(Abs(m) \div 2^s, Abs(m) % 2^s, 2^(s - 1)),
                          e + s)

\* m * 2^e for an m of n bits.
RoundBits(m, e, n) == RoundDrop(m, e, n, DropBits(n, e))

RoundF(m, e) == RoundBits(m, e, BitLen(Abs(m)))

\* The f32 of m * 2^e for an m of MantBits bits or fewer: the value itself,
\* the infinity of its sign past the f32 range, and the multiple of
\* 2^MinExp nearest to it below that.
Fin(m, e) == RoundF(m, e)

FromInt(n) == RoundF(n, 0)

Neg(x) ==
    CASE x = NaN -> NaN
      [] x = Zero -> NegZero
      [] x = NegZero -> Zero
      [] OTHER -> [m |-> -x.m, e |-> x.e]

----------------------------------------------------------------------------
(* f32: arithmetic *)

\* x + y where y is far below x: x is on 27 bits as big * 2^ex, low is y
\* shifted under it, and the bits of y that fall off are kept as one sticky
\* bit.
AddSticky(x, y, big, ex, low) ==
    RoundF(Sgn(x.m) * (2 * (IF Sgn(x.m) = Sgn(y.m) THEN big + low
                            ELSE big - low - 1) + 1),
           ex - 1)

\* x + y where x has to be shifted up by sh bits to be on 27 bits.
AddFar(x, y, sh) ==
    AddSticky(x, y, Abs(x.m) * 2^sh, x.e - sh,
              IF x.e - sh - y.e > MantBits THEN 0
              ELSE Abs(y.m) \div 2^(x.e - sh - y.e))

\* x + y for an x.m of n1 bits.
AddBits(x, y, n1) ==
    IF n1 + x.e - y.e <= 30
    THEN RoundF(x.m * 2^(x.e - y.e) + y.m, y.e)
    ELSE AddFar(x, y, 27 - n1)

\* x + y for finite non-zero x, y with x.e >= y.e.
AddOrdered(x, y) == AddBits(x, y, BitLen(Abs(x.m)))

Add(x, y) ==
    CASE x = NaN -> NaN
      [] y = NaN -> NaN
      [] IsInf(x) /\ IsInf(y) -> (IF x = y THEN x ELSE NaN)
      [] IsInf(x) -> x
      [] IsInf(y) -> y
      [] x.m = 0 /\ y.m = 0 -> SignedZero(x = NegZero /\ y = NegZero)
      [] x.m = 0 -> y
      [] y.m = 0 -> x
      [] OTHER -> AddOrdered(IF x.e >= y.e THEN x ELSE y,
                             IF x.e >= y.e THEN y ELSE x)

Sub(x, y) == Add(x, Neg(y))

\* |x.m| * |y.m| is too wide for one machine word: the product by halves.
\* The product hi * 2^24 + lo, which is odd, times sgn * 2^e: its 27 leading
\* bits, k of them from lo, and a sticky bit.
MulTop(sgn, e, hi, lo, k) ==
    RoundF(sgn * (2 * (hi * 2^k + (lo \div 2^(24 - k))) + 1), e + 24 - k - 1)

\* The sum hh * 2^24 + mid * 2^12 + ll as hi * 2^24 + lo.
MulSum(sgn, e, hh, mid, low) ==
    MulTop(sgn, e, hh + (mid \div 4096) + (low \div 16777216), low % 16777216,
           27 - BitLen(hh + (mid \div 4096) + (low \div 16777216)))

\* (a1 * 2^12 + a0) * (b1 * 2^12 + b0) * sgn * 2^e
MulHalves(sgn, e, a1, a0, b1, b0) ==
    MulSum(sgn, e, a1 * b1, a1 * b0 + a0 * b1,
           ((a1 * b0 + a0 * b1) % 4096) * 4096 + a0 * b0)

MulWide(x, y) ==
    MulHalves(Sgn(x.m) * Sgn(y.m), x.e + y.e,
              Abs(x.m) \div 4096, Abs(x.m) % 4096,
              Abs(y.m) \div 4096, Abs(y.m) % 4096)

Mul(x, y) ==
    CASE x = NaN -> NaN
      [] y = NaN -> NaN
      [] IsInf(x) \/ IsInf(y) ->
            (IF x.m = 0 \/ y.m = 0 THEN NaN
             ELSE SignedInf(Negative(x) # Negative(y)))
      [] x.m = 0 \/ y.m = 0 -> SignedZero(Negative(x) # Negative(y))
      [] BitLen(Abs(x.m)) + BitLen(Abs(y.m)) <= 31 ->
            RoundF(x.m * y.m, x.e + y.e)
      [] OTHER -> MulWide(x, y)

\* The digits d.q * 2^d.e of a result that goes on after them, with the sign
\* sgn: the rest is kept as one sticky bit.
Sticky(sgn, d) == RoundF(sgn * (2 * d.q + 1), d.e - 1)

\* Long division a / b, four bits a step, until the quotient d.q has 26
\* bits or more; r is the remainder so far and d.e the exponent of the
\* quotient's last bit.
RECURSIVE DivSteps(_, _, _)
DivSteps(d, r, b) ==
    IF d.q >= 33554432 THEN d
    ELSE DivSteps([q |-> d.q * 16 + ((r * 16) \div b), e |-> d.e - 4],
                  (r * 16) % b, b)

Div(x, y) ==
    CASE x = NaN -> NaN
      [] y = NaN -> NaN
      [] IsInf(x) ->
            (IF IsInf(y) THEN NaN
             ELSE SignedInf(Negative(x) # Negative(y)))
      [] IsInf(y) -> SignedZero(Negative(x) # Negative(y))
      [] y.m = 0 ->
            (IF x.m = 0 THEN NaN
             ELSE SignedInf(Negative(x) # Negative(y)))
      [] x.m = 0 -> SignedZero(Negative(x) # Negative(y))
      [] Abs(x.m) % Abs(y.m) = 0 ->
            Fin(Sgn(x.m) * Sgn(y.m) * (Abs(x.m) \div Abs(y.m)), x.e - y.e)
      [] OTHER -> \* y.m is odd and does not divide x.m: the quotient
                  \* never ends
            Sticky(Sgn(x.m) * Sgn(y.m),
                   DivSteps([q |-> Abs(x.m) \div Abs(y.m), e |-> x.e - y.e],
                            Abs(x.m) % Abs(y.m), Abs(y.m)))

\* Integer square root of a natural number below 2^26, a hexadecimal digit
\* a step: s is the root of n \div 256 times 16, and the next digit is the
\* number of d in 1..15 whose (s + d)^2 is within n.
IsqrtDigit(s, n) == s + Cardinality({d \in 1..15 : (s + d) * (s + d) <= n})

RECURSIVE Isqrt(_)
Isqrt(n) ==
    IF n = 0 THEN 0 ELSE IsqrtDigit(16 * Isqrt(n \div 256), n)

\* Square root digit by digit, two bits a step: d.q is the root so far, rem
\* what is left of the radicand under it, d.e the exponent of the root's last
\* bit.  The next two bits are the number of k in 1..3 with (4 root + k)^2
\* within the radicand, that is with (8 root + k) k <= 16 rem.
SqrtDigit(root, rem) ==
    Cardinality({k \in 1..3 : (8 * root + k) * k <= 16 * rem})

RECURSIVE SqrtSteps(_, _)
SqrtSteps(d, rem) ==
    IF d.q >= 67108864 THEN d
    ELSE SqrtSteps([q |-> 4 * d.q + SqrtDigit(d.q, rem), e |-> d.e - 2],
                   16 * rem - (8 * d.q + SqrtDigit(d.q, rem))
                                  * SqrtDigit(d.q, rem))

\* The square root of m2 * 2^e2 whose whole part is root, for an even e2.
SqrtFrom(m2, e2, root) ==
    IF root * root = m2 THEN Fin(root, e2 \div 2)
    ELSE Sticky(1, SqrtSteps([q |-> root, e |-> e2 \div 2],
                             m2 - root * root))

\* Half the number of bits m2 is short of 24: m2 * 4^k has 23 bits or more,
\* and its whole root 12.
SqrtShift(m2) == IF m2 >= 8388608 THEN 0 ELSE (24 - BitLen(m2)) \div 2

\* The square root of m2 * 4^k * 2^(e2 - 2k).
SqrtScaled(m2, e2, k) == SqrtFrom(m2 * 4^k, e2 - 2 * k, Isqrt(m2 * 4^k))

SqrtEven(m2, e2) == SqrtScaled(m2, e2, SqrtShift(m2))

Sqrt(x) ==
    CASE x = NaN -> NaN
      [] x.m < 0 -> NaN
      [] IsInf(x) -> Inf
      [] x.m = 0 -> x
      [] OTHER -> SqrtEven(IF x.e % 2 = 1 THEN 2 * x.m ELSE x.m,
                           IF x.e % 2 = 1 THEN x.e - 1 ELSE x.e)

----------------------------------------------------------------------------
(* f32: comparison *)

\* x < y for finite non-zero x, y of one sign, whose leading bits are at
\* 2^tx and 2^ty.
LtTops(x, y, tx, ty) ==
    IF tx # ty THEN (IF x.m > 0 THEN tx < ty ELSE tx > ty)
    ELSE IF x.e >= y.e THEN x.m * 2^(x.e - y.e) < y.m
    ELSE x.m < y.m * 2^(y.e - x.e)

\* x < y for finite x, y.
LtFinite(x, y) ==
    IF Sgn(x.m) # Sgn(y.m) THEN x.m < y.m
    ELSE IF x.m = 0 THEN FALSE
    ELSE LtTops(x, y, BitLen(Abs(x.m)) + x.e, BitLen(Abs(y.m)) + y.e)

Lt(x, y) ==
    CASE x = NaN -> FALSE
      [] y = NaN -> FALSE
      [] x = y -> FALSE
      [] x = NegInf \/ y = Inf -> TRUE
      [] x = Inf \/ y = NegInf -> FALSE
      [] OTHER -> LtFinite(x, y)

\* The two zeros are equal.
Le(x, y) ==
    CASE x = NaN -> FALSE
      [] y = NaN -> FALSE
      [] x = y -> TRUE
      [] x.m = 0 /\ y.m = 0 /\ IsFinite(x) /\ IsFinite(y) -> TRUE
      [] OTHER -> Lt(x, y)

Gt(x, y) == Lt(y, x)

\* A decimal literal of the source, num / den with num, den < 2^24: the f32
\* nearest to it, which is what the correctly rounded quotient is.
Dec(num, den) == Div(FromInt(num), FromInt(den))

----------------------------------------------------------------------------
(* f32: powf *)

(***************************************************************************)
(* f32::powf calls the powf of the platform's libm, and Rust leaves its    *)
(* precision unspecified.  The libm functions in use (glibc, musl, the     *)
(* system libraries of macOS and Windows) keep the error under one unit in *)
(* the last place, and differ from one another, and with the processor     *)
(* they run on, in which of the two f32 around the exact power they        *)
(* return.  Powf takes that choice as a parameter: the exact power is      *)
(* computed to 62 places as exp(y * ln x), in fixed point, and rounded     *)
(* to the f32 next below it, next above it, or nearest to it.  A power     *)
(* that is an f32 is returned whatever the choice.                         *)
(***************************************************************************)

One == [m |-> 1, e |-> 0]

\* The roundings of an exact power that a libm may return.
Libms == {"nearest", "below", "above"}

\* A fixed-point number is a tuple of 7 limbs <<w1, ..., w7>> that stands
\* for w1 + w2 / Limb + ... + w7 / Limb^6: 84 binary places.  w1 is any
\* integer and the others are in 0..Limb-1, so a negative number has a
\* negative w1 and a fraction that counts up from it.
Limb == 16384

WZero == <<0, 0, 0, 0, 0, 0, 0>>
WOne == <<1, 0, 0, 0, 0, 0, 0>>

\* The columns c[1..i], each any integer, brought into limbs from the last
\* to the first: k is the carry into column i and tail the limbs after it.
RECURSIVE Carry(_, _, _, _)
Carry(c, i, k, tail) ==
    IF i = 1 THEN <<c[1] + k>> \o tail
    ELSE Carry(c, i - 1, (c[i] + k) \div Limb, <<(c[i] + k) % Limb>> \o tail)

WNorm(c) == Carry(c, Len(c), 0, <<>>)

WAdd(a, b) == WNorm([i \in 1..7 |-> a[i] + b[i]])
WSub(a, b) == WNorm([i \in 1..7 |-> a[i] - b[i]])
WNeg(a) == WNorm([i \in 1..7 |-> -a[i]])
WAbs(a) == IF a[1] < 0 THEN WNeg(a) ELSE a

\* a * n for an integer n of 16 bits or fewer.
WMulInt(a, n) == WNorm([i \in 1..7 |-> a[i] * n])

\* a / n for an integer n in 1..2^16, rounded down: long division, i the limb
\* to divide next and r the remainder of the limbs before it.
RECURSIVE DivIntFrom(_, _, _, _)
DivIntFrom(a, n, i, r) ==
    IF i > 7 THEN <<>>
    ELSE <<(r * Limb + a[i]) \div n>>
         \o DivIntFrom(a, n, i + 1, (r * Limb + a[i]) % n)

WDivInt(a, n) == DivIntFrom(a, n, 1, 0)

\* a * b for a[1] and b[1] of 8 bits or fewer: the columns of the long
\* multiplication, one more than is kept so that its carry is not lost.
MulColumns(a, b) ==
    <<
      a[1] * b[1],
      a[1] * b[2] + a[2] * b[1],
      a[1] * b[3] + a[2] * b[2] + a[3] * b[1],
      a[1] * b[4] + a[2] * b[3] + a[3] * b[2] + a[4] * b[1],
      a[1] * b[5] + a[2] * b[4] + a[3] * b[3] + a[4] * b[2] + a[5] * b[1],
      a[1] * b[6] + a[2] * b[5] + a[3] * b[4] + a[4] * b[3] + a[5] * b[2] + a[6] * b[1],
      a[1] * b[7] + a[2] * b[6] + a[3] * b[5] + a[4] * b[4] + a[5] * b[3] + a[6] * b[2] + a[7] * b[1],
      a[2] * b[7] + a[3] * b[6] + a[4] * b[5] + a[5] * b[4] + a[6] * b[3] + a[7] * b[2]
    >>

WMul(a, b) == SubSeq(WNorm(MulColumns(a, b)), 1, 7)

\* Long division num / den for 0 <= num < den < 2^25, a limb at a time and
\* each limb in steps of 6, 6 and 2 bits, which keep the remainder times the
\* step within 31 bits.  st.q is the quotient so far and st.r the remainder.
DivBits(st, den, bits) ==
    [q |-> st.q * 2^bits + ((st.r * 2^bits) \div den),
     r |-> (st.r * 2^bits) % den]

DivLimb(r, den) ==
    DivBits(DivBits(DivBits([q |-> 0, r |-> r], den, 6), den, 6), den, 2)

RECURSIVE QuotFrom(_, _, _)
QuotFrom(st, den, n) ==
    IF n = 1 THEN <<st.q>>
    ELSE <<st.q>> \o QuotFrom(DivLimb(st.r, den), den, n - 1)

WQuot(num, den) == <<0>> \o QuotFrom(DivLimb(num, den), den, 6)

\* 1 / (2k + 1) + t2 / (2k + 3) + t2^2 / (2k + 5) + ... for 0 <= t2 < 1/8,
\* by Horner's rule from the term of t2^AtanhTerms down: acc is the sum from
\* the term k + 1 on.
AtanhTerms == 14

RECURSIVE AtanhSeries(_, _, _)
AtanhSeries(t2, k, acc) ==
    CASE acc[1] > 1 -> acc
      [] k < 0 -> acc
      [] OTHER -> AtanhSeries(t2, k - 1,
                              WAdd(WDivInt(WOne, 2 * k + 1), WMul(t2, acc)))

\* atanh(t) = t + t^3 / 3 + t^5 / 5 + ... for 0 <= t < 0.36
WAtanh(t) == WMul(t, AtanhSeries(WMul(t, t), AtanhTerms, WZero))

\* ln 2 = 2 atanh(1/3) = 2/3 (1 + (1/9) / 3 + (1/9)^2 / 5 + ...); the series
\* of 1/9 needs twice the terms.
Ln2 == WDivInt(WMulInt(AtanhSeries(WDivInt(WOne, 9), 2 * AtanhTerms, WZero), 2), 3)

\* The square root of 1/2 as a 24-bit significand, rounded.
SqrtHalf24 == 11863283

\* ln z for the z in [sqrt(1/2), sqrt(2)) whose 24-bit significand is m24:
\* z = m24 / 2^23 below SqrtHalf24 and m24 / 2^24 from it on, and
\* ln z = 2 atanh((z - 1) / (z + 1)).
WLnNear(m24) ==
    IF m24 < SqrtHalf24
    THEN WMulInt(WAtanh(WQuot(m24 - 8388608, m24 + 8388608)), 2)
    ELSE WNeg(WMulInt(WAtanh(WQuot(16777216 - m24, m24 + 16777216)), 2))

\* ln of m * 2^e for an m > 0 of n bits: the power of two k that brings it
\* into [sqrt(1/2), sqrt(2)) is n + e - 1 or n + e.
WLnBits(m, e, n) ==
    WAdd(WMulInt(Ln2, IF m * 2^(24 - n) < SqrtHalf24 THEN n + e - 1 ELSE n + e),
         WLnNear(m * 2^(24 - n)))

\* ln x for a finite x > 0
WLn(x) == WLnBits(x.m, x.e, BitLen(x.m))

\* a * n for a > 0 and an n in 0..2^24-1: up to 31 bits before the point.
WMulWide(a, n) ==
    WAdd(WMulInt(WMulInt(a, n \div 4096), 4096), WMulInt(a, n % 4096))

\* The limbs of a >= 0 with a[1] spread over three: 9 limbs, the third of
\* them the units.
Spread(a) ==
    <<a[1] \div (Limb * Limb), (a[1] \div Limb) % Limb, a[1] % Limb>>
    \o SubSeq(a, 2, 7)

\* The exponent of the leading bit of a spread number above zero.
FirstLimb(s) == CHOOSE j \in 1..9 : s[j] # 0 /\ \A h \in 1..(j - 1) : s[h] = 0
TopBitAt(s, i) == 14 * (3 - i) + BitLen(s[i]) - 1
TopBit(s) == TopBitAt(s, FirstLimb(s))

\* The limb i of a spread number, zero outside it.
LimbAt(s, i) == IF i \in 1..9 THEN s[i] ELSE 0

\* The limb i of s * 2^(14 q + r) for r in 0..13: the low bits of the limb
\* q places down and the high bits of the one after it.
ShiftedLimb(s, i, q, r) ==
    (LimbAt(s, i + q) % 2^(14 - r)) * 2^r
    + (LimbAt(s, i + q + 1) \div 2^(14 - r))

\* s * 2^sh for a spread s whose product is below 2^14, rounded down.
WShift(s, sh) ==
    [i \in 1..7 |-> ShiftedLimb(s, i + 2, sh \div 14, sh % 14)]

\* exp(g) = 1 + g (1 + g/2 (1 + g/3 (...))) for |g| < 0.36, from the term
\* of g^ExpTerms down: acc is the bracket of k + 1.
ExpTerms == 16

RECURSIVE ExpSeries(_, _, _)
ExpSeries(g, k, acc) ==
    CASE acc[1] > 1 -> acc
      [] k = 0 -> acc
      [] OTHER -> ExpSeries(g, k - 1,
                            WAdd(WOne, WDivInt(WMul(g, acc), k)))

\* The multiple of ln 2 nearest to p, for |p| < 256: p / ln 2 from the first
\* 7 binary places of p and 15 of 1 / ln 2.
NearestLn2(p) ==
    ((p[1] * 128 + (p[2] \div 128)) * 47274 + 2097152) \div 4194304

\* The 29 leading bits i of an exp(g) in [1/2, 2), the 28 after them, f, the
\* 14 after those, t, and the power of two n to scale it by, rounded as the
\* libm does.  The power is taken for the f32 q when the bits after q are,
\* to 62 places, all zeros, and for q + 1 when they are all ones; half way
\* between the two the nearest is the even one.
PowTolerance == 512

AllZeros(f, t) == f = 0 /\ t < PowTolerance
AllOnes(f, t) == f = 268435455 /\ t >= Limb - PowTolerance

\* The bits rem, f and t after q are, to 62 places, a one and zeros: the
\* power is half way from q to q + 1.
HalfWay(rem, f, t, s) ==
    \/ rem = 2^(s - 1) /\ AllZeros(f, t)
    \/ rem = 2^(s - 1) - 1 /\ AllOnes(f, t)

RoundPicked(q, rem, f, t, e, s, libm) ==
    CASE rem = 0 /\ AllZeros(f, t) -> Fin(q, e)
      [] rem = 2^s - 1 /\ AllOnes(f, t) -> Fin(q + 1, e)
      [] libm = "below" -> Fin(q, e)
      [] libm = "above" -> Fin(q + 1, e)
      [] HalfWay(rem, f, t, s) -> Fin(q + (q % 2), e)
      [] OTHER -> Fin(IF 2 * rem >= 2^s THEN q + 1 ELSE q, e)

RoundPow(i, f, t, e, s, libm) ==
    IF s > 30 THEN (IF libm = "above" THEN Fin(1, MinExp) ELSE Zero)
    ELSE RoundPicked(i \div 2^s, i % 2^s, f, t, e + s, s, libm)

RoundExp(w, n, libm) ==
    RoundPow(w[1] * 268435456 + w[2] * Limb + w[3], w[4] * Limb + w[5], w[6],
             n - 28,
             DropBits(BitLen(w[1] * 268435456 + w[2] * Limb + w[3]), n - 28),
             libm)

\* exp(p) for |p| < 256, as 2^n exp(p - n ln 2)
ExpScaled(p, n, libm) ==
    RoundExp(ExpSeries(WSub(p, WMulInt(Ln2, n)), ExpTerms, WOne), n, libm)

WExp(p, libm) == ExpScaled(p, NearestLn2(p), libm)

\* exp(+-a * 2^sh) for a spread a > 0 whose leading bit is at 2^top: beyond
\* 2^8 the power is past the f32 range on either side, and below 2^-84 it
\* is 1 to all the places kept.
PowShifted(a, negative, sh, top, libm) ==
    CASE top + sh >= 8 -> (IF negative THEN Zero ELSE Inf)
      [] top + sh < -84 -> One
      [] negative -> WExp(WNeg(WShift(a, sh)), libm)
      [] OTHER -> WExp(WShift(a, sh), libm)

PowSpread(a, negative, sh, libm) ==
    PowShifted(a, negative, sh, TopBit(a), libm)

\* x^y for a finite x > 0 other than 1 and a finite y other than 0, whose
\* logarithm is l.
PowLn(l, y, libm) ==
    IF BitLen(Abs(y.m)) + y.e > 32 THEN (IF (l[1] < 0) # (y.m < 0) THEN Zero ELSE Inf)
    ELSE PowSpread(Spread(WMulWide(WAbs(l), Abs(y.m))),
                   (l[1] < 0) # (y.m < 0), y.e, libm)

PowPositive(x, y, libm) == PowLn(WLn(x), y, libm)

\* y is a whole number, and an odd one.
IsWhole(y) == IsFinite(y) /\ (y.m = 0 \/ y.e >= 0)
IsOddWhole(y) == IsFinite(y) /\ y.m # 0 /\ y.e = 0

\* |x| < 1 for a finite x
BelowOne(x) == x.m = 0 \/ BitLen(Abs(x.m)) + x.e <= 0

\* x.powf(y) as the libm gives it: the cases of C's pow for NaN, zero and
\* the infinities, NaN for a negative x unless y is a whole number, and the
\* power of |x| with the sign of x when y is odd.
Powf(x, y, libm) ==
    CASE IsFinite(y) /\ y.m = 0 -> One
      [] x = One -> One
      [] x = NaN \/ y = NaN -> NaN
      [] IsInf(y) ->
            (IF x = Neg(One) THEN One
             ELSE IF (IsFinite(x) /\ BelowOne(x)) = (y = Inf) THEN Zero
             ELSE Inf)
      [] IsInf(x) \/ x.m = 0 ->
            (IF IsInf(x) = (y.m > 0)
             THEN (IF Negative(x) /\ IsOddWhole(y) THEN NegInf ELSE Inf)
             ELSE (IF Negative(x) /\ IsOddWhole(y) THEN NegZero ELSE Zero))
      [] x.m < 0 /\ ~IsWhole(y) -> NaN
      [] x = Neg(One) -> (IF IsOddWhole(y) THEN x ELSE One)
      [] x.m < 0 /\ IsOddWhole(y) ->
            Neg(PowPositive(Neg(x), y, libm))
      [] x.m < 0 -> PowPositive(Neg(x), y, libm)
      [] OTHER -> PowPositive(x, y, libm)

----------------------------------------------------------------------------
(* colors.rs: the gamut geometry *)

\* struct GamutPoint { x: f32, y: f32 }
GamutPoint(x, y) == [x |-> x, y |-> y]

\* struct ColorGamut { red, green, blue: GamutPoint }
ColorGamut(red, green, blue) == [red |-> red, green |-> green, blue |-> blue]

\* x.powi(2)
Powi2(x) == Mul(x, x)

\* sign with <= for <.
sign_non_strict(self, p1, p2) ==
    Le(Sub(Mul(Sub(self.x, p2.x), Sub(p1.y, p2.y)),
           Mul(Sub(p1.x, p2.x), Sub(self.y, p2.y))),
       Zero)

\* GamutPoint::sign(&self, p1, p2)
sign(self, p1, p2) ==
    Lt(Sub(Mul(Sub(self.x, p2.x), Sub(p1.y, p2.y)),
           Mul(Sub(p1.x, p2.x), Sub(self.y, p2.y))),
       Zero)

\* The foot with the sign of the last term slipped.
foot_of_perpendicular_sign_slip(self, p1, p2, k) ==
    GamutPoint(Sub(self.x, Mul(k, Sub(p2.y, p1.y))),
               Sub(self.y, Mul(k, Sub(p2.x, p1.x))))

\* closest_point_on_line, its last three lines: x and y from k
foot_of_perpendicular(self, p1, p2, k) ==
    GamutPoint(Sub(self.x, Mul(k, Sub(p2.y, p1.y))),
               Add(self.y, Mul(k, Sub(p2.x, p1.x))))

\* GamutPoint::closest_point_on_line(&self, p1, p2)
closest_point_on_line(self, p1, p2) ==
    foot_of_perpendicular(self, p1, p2,
        Div(Sub(Mul(Sub(p2.y, p1.y), Sub(self.x, p1.x)),
                Mul(Sub(p2.x, p1.x), Sub(self.y, p1.y))),
            Add(Powi2(Sub(p2.y, p1.y)), Powi2(Sub(p2.x, p1.x)))))

\* GamutPoint::distance_to(&self, p)
distance_to(self, p) ==
    Sqrt(Add(Powi2(Sub(self.x, p.x)), Powi2(Sub(self.y, p.y))))

\* point_in_gamut with the third sign test left out of the comparison.
point_in_gamut_two_edges(self, p) ==
    LET b1 == sign(p, self.red, self.green)
        b2 == sign(p, self.green, self.blue)
    IN  b1 = b2

\* ColorGamut::point_in_gamut(&self, p)
point_in_gamut(self, p) ==
    LET b1 == sign(p, self.red, self.green)
        b2 == sign(p, self.green, self.blue)
        b3 == sign(p, self.blue, self.red)
    IN  (b1 = b2) /\ (b2 = b3)

\* closest_point, its if / else if / else: the projection to return
nearest_projection(proj1, proj2, proj3, dist1, dist2, dist3) ==
    IF Le(dist1, dist2) /\ Le(dist1, dist3) THEN proj1
    ELSE IF Le(dist2, dist3) THEN proj2
    ELSE proj3

\* closest_point from the three projections: their distances and the choice
closest_projection(p, proj1, proj2, proj3) ==
    nearest_projection(proj1, proj2, proj3,
                       distance_to(p, proj1), distance_to(p, proj2),
                       distance_to(p, proj3))

\* ColorGamut::closest_point(&self, p)
closest_point(self, p) ==
    closest_projection(p,
                       closest_point_on_line(p, self.red, self.green),
                       closest_point_on_line(p, self.green, self.blue),
                       closest_point_on_line(p, self.blue, self.red))

----------------------------------------------------------------------------
(* colors.rs: the conversions *)

\* struct RGB { r: u8, g: u8, b: u8 }
RGB(r, g, b) == [r |-> r, g |-> g, b |-> b]

\* What `as u8` does with an f32 that a u8 cannot hold depends on the
\* compiler the crate is built with.  From Rust 1.45 on the cast saturates
\* (NaN gives 0).  Before that it was undefined behaviour, which on x86-64
\* came out as cvttss2si followed by a move of the low byte: the value
\* truncated to an i32 modulo 256, and 0 for what no i32 holds.  The unit
\* test xy_to_rgb of colors.rs expects 145 for 1169.4: the second build.
Builds == {"saturating", "truncating"}

FitsI32(v) == IsFinite(v) /\ BitLen(Abs(v.m)) + v.e <= 31

\* A finite f32 that fits an i32, rounded toward zero.
Trunc(v) ==
    IF v.e >= 0 THEN v.m * 2^v.e
    ELSE IF -v.e > 30 THEN 0
    ELSE Sgn(v.m) * (Abs(v.m) \div 2^(-v.e))

\* v as u8
as_u8(v, build) ==
    IF build = "saturating"
    THEN (IF IsNaN(v) THEN 0
          ELSE IF ~FitsI32(v) THEN (IF v.m < 0 THEN 0 ELSE 255)
          ELSE IF Trunc(v) < 0 THEN 0
          ELSE IF Trunc(v) > 255 THEN 255
          ELSE Trunc(v))
    ELSE (IF ~FitsI32(v) THEN 0 ELSE Trunc(v) % 256)

\* struct XY { x: f32, y: f32, brightness: u8 }
XY(x, y, brightness) == [x |-> x, y |-> y, brightness |-> brightness]

\* adjust_for_gamut, its last two lines: x and y set to the new point's
moved_to(self, new_gamut_point) ==
    [self EXCEPT !.x = new_gamut_point.x, !.y = new_gamut_point.y]

\* adjust_for_gamut without the early return for a point in the gamut.
adjust_for_gamut_always_projects(self, gamut) ==
    moved_to(self, closest_point(gamut, GamutPoint(self.x, self.y)))

\* XY::adjust_for_gamut(&mut self, gamut): the XY after the call
adjust_for_gamut(self, gamut) ==
    IF point_in_gamut(gamut, GamutPoint(self.x, self.y)) THEN self
    ELSE moved_to(self, closest_point(gamut, GamutPoint(self.x, self.y)))

\* A conversion calls powf at most once for each channel, in the order r, g,
\* b: the roundings of its three calls.  Whatever an outcome of the libm, it
\* is that of "below" or that of "above".
LibmCalls == [1..3 -> {"below", "above"}]

\* powf has a rounding to choose for a finite base above 0 other than 1; its
\* result for any other base is exact (the exponents of the conversions,
\* 2.3 and 1 / 2.4, are no whole numbers).
Rounds(base) == IsFinite(base) /\ base.m > 0 /\ base # One

\* The roundings of the calls of powf with the bases given, NaN standing for
\* a channel without a call.  powf is a function: calls with one base round
\* one way, and where nothing is rounded the choice is written "below".
LibmCallsFor(bases) ==
    {libm \in LibmCalls :
        /\ \A i \in 1..3 : ~Rounds(bases[i]) => libm[i] = "below"
        /\ \A i, j \in 1..3 : bases[i] = bases[j] => libm[i] = libm[j]}

\* XY::from_rgb: the gamma correction of a channel scaled to 0..1
gamma_correction(v, libm) ==
    IF Gt(v, Dec(4045, 100000))
    THEN Powf(Div(Add(v, Dec(55, 1000)), Dec(1055, 1000)), Dec(23, 10), libm)
    ELSE Div(v, Dec(1292, 100))

\* XY::from_rgb: the base of the call of powf for a channel scaled to 0..1,
\* NaN where the branch without powf is taken
gamma_powf_base(v) ==
    IF Gt(v, Dec(4045, 100000))
    THEN Div(Add(v, Dec(55, 1000)), Dec(1055, 1000))
    ELSE NaN

\* XY::from_rgb: the loop body for one channel
Gamma(channel, libm) ==
    gamma_correction(Div(FromInt(channel), FromInt(255)), libm)

\* XY::from_rgb, its last two lines: brightness and the XY returned
xyz_to_xy(x, y, z, build) ==
    XY(Div(x, Add(Add(x, y), z)), Div(y, Add(Add(x, y), z)),
       as_u8(Mul(y, FromInt(254)), build))

\* XY::from_rgb: x, y and z from the gamma-corrected r, g and b
wide_rgb_to_xy(r, g, b, build) ==
    xyz_to_xy(Add(Add(Mul(r, Dec(664511, 1000000)), Mul(g, Dec(154324, 1000000))),
                  Mul(b, Dec(162028, 1000000))),
              Add(Add(Mul(r, Dec(283881, 1000000)), Mul(g, Dec(668433, 1000000))),
                  Mul(b, Dec(47685, 1000000))),
              Add(Add(Mul(r, Dec(88, 1000000)), Mul(g, Dec(72310, 1000000))),
                  Mul(b, Dec(986039, 1000000))),
              build)

\* XY::from_rgb: the bases of its calls of powf, in the order r, g, b
gamma_powf_bases(rgb) ==
    <<gamma_powf_base(Div(FromInt(rgb.r), FromInt(255))),
      gamma_powf_base(Div(FromInt(rgb.g), FromInt(255))),
      gamma_powf_base(Div(FromInt(rgb.b), FromInt(255)))>>

\* XY::from_rgb(rgb)
from_rgb(rgb, build, libm) ==
    wide_rgb_to_xy(Gamma(rgb.r, libm[1]), Gamma(rgb.g, libm[2]),
                   Gamma(rgb.b, libm[3]), build)

\* RGB::from_xy: the reverse gamma correction of one channel and its scaling
\* to 0..255, before the cast
ReverseGamma(c, libm) ==
    Mul(IF Le(c, Dec(31308, 10000000))
        THEN Mul(c, Dec(1292, 100))
        ELSE Sub(Mul(Dec(1055, 1000), Powf(c, Div(One, Dec(24, 10)), libm)),
                 Dec(55, 1000)),
        FromInt(255))

\* RGB::from_xy: r, g and b from x, y and brightness, before the loop
xy_to_wide_rgb(x, y, brightness) ==
    <<Sub(Sub(Mul(x, Dec(1656492, 1000000)),
              Mul(brightness, Dec(354851, 1000000))),
          Mul(y, Dec(255038, 1000000))),
      Add(Add(Mul(Neg(x), Dec(707196, 1000000)),
              Mul(brightness, Dec(1655397, 1000000))),
          Mul(y, Dec(36152, 1000000))),
      Add(Sub(Mul(x, Dec(51713, 1000000)),
              Mul(brightness, Dec(121364, 1000000))),
          Mul(y, Dec(1011530, 1000000)))>>

\* RGB::from_xy: the array rgb as the loop finds it
from_xy_wide(xy) ==
    xy_to_wide_rgb(Mul(Div(FromInt(xy.brightness), xy.y), xy.x),
                   Mul(Div(FromInt(xy.brightness), xy.y),
                       Sub(Sub(One, xy.x), xy.y)),
                   FromInt(xy.brightness))

\* RGB::from_xy: the base of the call of powf for one channel, NaN where the
\* branch without powf is taken
reverse_gamma_powf_base(c) == IF Le(c, Dec(31308, 10000000)) THEN NaN ELSE c

\* RGB::from_xy: the bases of its calls of powf, in the order r, g, b
powf_bases(rgb) ==
    <<reverse_gamma_powf_base(rgb[1]), reverse_gamma_powf_base(rgb[2]),
      reverse_gamma_powf_base(rgb[3])>>

\* RGB::from_xy: the loop over the array rgb
reverse_gamma(rgb, libm) ==
    <<ReverseGamma(rgb[1], libm[1]), ReverseGamma(rgb[2], libm[2]),
      ReverseGamma(rgb[3], libm[3])>>

\* RGB::from_xy: the three channels as f32, before the cast to u8
from_xy_scaled(xy, libm) == reverse_gamma(from_xy_wide(xy), libm)

\* RGB::from_xy, its last line: the casts
cast_channels(channels, build) ==
    RGB(as_u8(channels[1], build), as_u8(channels[2], build),
        as_u8(channels[3], build))

\* RGB::from_xy(xy)
from_xy(xy, build, libm) == cast_channels(from_xy_scaled(xy, libm), build)

COLOR_GAMUT_A ==
    ColorGamut(GamutPoint(Dec(704, 1000), Dec(296, 1000)),
               GamutPoint(Dec(2151, 10000), Dec(7106, 10000)),
               GamutPoint(Dec(138, 1000), Dec(8, 100)))

COLOR_GAMUT_B ==
    ColorGamut(GamutPoint(Dec(675, 1000), Dec(322, 1000)),
               GamutPoint(Dec(409, 1000), Dec(518, 1000)),
               GamutPoint(Dec(167, 1000), Dec(4, 100)))

\* COLOR_GAMUT_C with the vertices of green and blue exchanged.
COLOR_GAMUT_C_green_blue_exchanged ==
    ColorGamut(GamutPoint(Dec(692, 1000), Dec(308, 1000)),
               GamutPoint(Dec(153, 1000), Dec(48, 1000)),
               GamutPoint(Dec(17, 100), Dec(7, 100)))

COLOR_GAMUT_C ==
    ColorGamut(GamutPoint(Dec(692, 1000), Dec(308, 1000)),
               GamutPoint(Dec(17, 100), Dec(7, 100)),
               GamutPoint(Dec(153, 1000), Dec(48, 1000)))

\* color_gamut_lookup(model_id): Some('A'), Some('B'), Some('C') or None
color_gamut_lookup(model_id) ==
    IF model_id \in {"LST001", "LLC005", "LLC006", "LLC007", "LLC010",
                     "LLC011", "LLC012", "LLC013", "LLC014"} THEN "A"
    ELSE IF model_id \in {"LCT001", "LCT002", "LCT003", "LMM001"} THEN "B"
    ELSE IF model_id \in {"LCT010", "LCT011", "LCT014", "LCT015", "LCT016",
                          "LLC020", "LST002", "LCT012"} THEN "C"
    ELSE "None"

----------------------------------------------------------------------------
(* The state *)

VARIABLES
    triangle,   \* the ColorGamut the calls are made with
    self_xy,    \* the XY value under adjustment, or given to RGB::from_xy
    op,         \* the function applied last ("new": none yet)
    edge,       \* closest_point_on_line: the edge projected on, 1..3
    flag,       \* point_in_gamut: what it returned
    point,      \* closest_point, closest_point_on_line: what it returned
    hist,       \* adjust_for_gamut: per call, what point_in_gamut reported
                \* on entry and the XY the call left behind
    toolchain,  \* the compiler the crate is built with, one of Builds
    scaled,     \* RGB::from_xy: the three channels as f32, before the cast
    rgb_out,    \* RGB::from_xy: the RGB it returned
    rgb_in,     \* XY::from_rgb: the RGB it was given
    lights,     \* Hue.lights: index -> Light, as get_lights filled it
    requests,   \* the state updates put to the bridge, in the order sent
    result,     \* what the last call on Hue returned: "Ok" or the error
    last_call   \* the arguments of the last call on Hue (<<>>: none)

geomVars == <<triangle, edge, flag, point, hist>>
convVars == <<scaled, rgb_out, rgb_in>>
hueVars == <<lights, requests, result, last_call>>
vars == <<triangle, self_xy, op, edge, flag, point, hist, toolchain, scaled,
          rgb_out, rgb_in, lights, requests, result, last_call>>

----------------------------------------------------------------------------
(* Inputs of the geometry specification *)

\* Gamut vertices are the whole-number points of [0, GridMax] x [0, GridMax];
\* query points are the whole-number points up to one step outside of it.
GridMax == 2
\* adjust_for_gamut is applied up to this many times in a row.
MaxAdjust == 2

\* k / 2 as an f32.
Half(k) == Fin(k, -1)

\* The grid's points, numbered in reading order.
VertexIds == 0..((GridMax + 1) * (GridMax + 1) - 1)
VertexAt(n) ==
    GamutPoint(FromInt(n \div (GridMax + 1)), FromInt(n % (GridMax + 1)))

\* The triangles with red at the grid's first point and green and blue at any
\* two points of the grid, in either order, which gives both windings; the
\* flat ones and the ones with equal vertices are among them.
GridGamuts ==
    {ColorGamut(VertexAt(0), VertexAt(t[1]), VertexAt(t[2])) :
        t \in VertexIds \X VertexIds}

Brightness == {0, 254}
Queries ==
    {XY(FromInt(i), FromInt(j), br) :
        i \in (-1)..(GridMax + 1), j \in (-1)..(GridMax + 1), br \in Brightness}

\* The triangles and query points of the unit tests of colors.rs
\* (point_in_triangle, point_not_in_triangle, closest_point_on_line,
\* closest_point_on_triangle).
TestTriangle ==
    ColorGamut(GamutPoint(FromInt(4), FromInt(1)),
               GamutPoint(FromInt(5), FromInt(3)),
               GamutPoint(FromInt(2), FromInt(1)))
TestDiamond ==
    ColorGamut(GamutPoint(FromInt(2), FromInt(1)),
               GamutPoint(FromInt(2), FromInt(3)),
               GamutPoint(FromInt(3), FromInt(2)))
TestCases ==
    {<<TestTriangle, XY(Half(7), Half(3), 254)>>,
     <<TestTriangle, XY(FromInt(1), FromInt(3), 254)>>,
     <<TestDiamond, XY(FromInt(1), FromInt(2), 254)>>}

\* The edges in the order closest_point projects on them.
EdgeFrom(g, i) == IF i = 1 THEN g.red ELSE IF i = 2 THEN g.green ELSE g.blue
EdgeTo(g, i) == IF i = 1 THEN g.green ELSE IF i = 2 THEN g.blue ELSE g.red

Init ==
    /\ \E c \in (GridGamuts \X Queries) \cup TestCases :
          /\ triangle = c[1]
          /\ self_xy = c[2]
    /\ op = "new"
    /\ edge = 0
    /\ flag = FALSE
    /\ point = GamutPoint(Zero, Zero)
    /\ hist = <<>>
    /\ toolchain = "saturating"   \* the geometry casts nothing to u8
    /\ scaled = <<Zero, Zero, Zero>>
    /\ rgb_out = RGB(0, 0, 0)
    /\ rgb_in = RGB(0, 0, 0)
    /\ lights = <<>>
    /\ requests = <<>>
    /\ result = "Ok"
    /\ last_call = <<>>

CallPointInGamut ==
    /\ op = "new"
    /\ op' = "point_in_gamut"
    /\ flag' = point_in_gamut(triangle, GamutPoint(self_xy.x, self_xy.y))
    /\ UNCHANGED <<triangle, self_xy, edge, point, hist, toolchain, convVars, hueVars>>

CallClosestPointOnLine(i) ==
    /\ op = "new"
    /\ op' = "closest_point_on_line"
    /\ edge' = i
    /\ point' = closest_point_on_line(GamutPoint(self_xy.x, self_xy.y),
                                      EdgeFrom(triangle, i), EdgeTo(triangle, i))
    /\ UNCHANGED <<triangle, self_xy, flag, hist, toolchain, convVars, hueVars>>

CallClosestPoint ==
    /\ op = "new"
    /\ op' = "closest_point"
    /\ point' = closest_point(triangle, GamutPoint(self_xy.x, self_xy.y))
    /\ UNCHANGED <<triangle, self_xy, edge, flag, hist, toolchain, convVars, hueVars>>

CallAdjustForGamut ==
    /\ op \in {"new", "adjust_for_gamut"}
    /\ Len(hist) < MaxAdjust
    /\ op' = "adjust_for_gamut"
    /\ self_xy' = adjust_for_gamut(self_xy, triangle)
    /\ hist' = Append(hist, [inside |-> point_in_gamut(triangle, GamutPoint(self_xy.x, self_xy.y)),
                             before |-> self_xy,
                             after |-> self_xy'])
    /\ UNCHANGED <<triangle, edge, flag, point, toolchain, convVars, hueVars>>

Next ==
    \/ CallPointInGamut
    \/ \E i \in 1..3 : CallClosestPointOnLine(i)
    \/ CallClosestPoint
    \/ CallAdjustForGamut

Spec == Init /\ [][Next]_vars

----------------------------------------------------------------------------
(* RGB::from_xy on its own *)

\* The chromaticities given to from_xy are the multiples of 1/10 up to
\* ConvGrid / 10 in x and in y, y = 0.0 among them, and y = -0.0.
ConvGrid == 8

\* xy_to_rgb of the unit tests: XY { x: 0.32272673, y: 0.32902290,
\* brightness: 35 }, the two literals as the f32 they denote.
TestXY == XY(Fin(676807, -21), Fin(11040177, -25), 35)

ConvBrightness == {0, 35, 254}
ConvInputs ==
    {XY(Dec(i, 10), Dec(j, 10), br) :
        i \in 0..ConvGrid, j \in 0..ConvGrid, br \in ConvBrightness}
        \cup {XY(Dec(i, 10), NegZero, br) :
                  i \in 0..ConvGrid, br \in ConvBrightness}
        \cup {TestXY}

InitConv ==
    /\ self_xy \in ConvInputs
    /\ toolchain \in Builds
    /\ op = "new"
    /\ scaled = <<Zero, Zero, Zero>>
    /\ rgb_out = RGB(0, 0, 0)
    /\ rgb_in = RGB(0, 0, 0)
    /\ triangle = COLOR_GAMUT_B
    /\ edge = 0
    /\ flag = FALSE
    /\ point = GamutPoint(Zero, Zero)
    /\ hist = <<>>
    /\ lights = <<>>
    /\ requests = <<>>
    /\ result = "Ok"
    /\ last_call = <<>>

\* RGB::from_xy(xy).  It returns an RGB, not a Result: there is no path on
\* which it fails, and no f32 operation or cast of it panics.
CallFromXy ==
    /\ op = "new"
    /\ op' = "from_xy"
    /\ \E libm \in LibmCallsFor(powf_bases(from_xy_wide(self_xy))) :
            scaled' = from_xy_scaled(self_xy, libm)
    /\ rgb_out' = cast_channels(scaled', toolchain)
    /\ UNCHANGED <<self_xy, rgb_in, toolchain, geomVars, hueVars>>

NextConv == CallFromXy

SpecConv == InitConv /\ [][NextConv]_vars

----------------------------------------------------------------------------
(* XY::from_rgb, and RGB::from_xy on what it returned *)

\* The values of a channel: the ends of the range, the values of the unit
\* test rgb_to_xy, and some between.
Channels == {0, 1, 10, 100, 200, 255}

RgbInputs == {RGB(r, g, b) : r \in Channels, g \in Channels, b \in Channels}

InitRgb ==
    /\ rgb_in \in RgbInputs
    /\ toolchain \in Builds
    /\ op = "new"
    /\ self_xy = XY(Zero, Zero, 0)
    /\ scaled = <<Zero, Zero, Zero>>
    /\ rgb_out = RGB(0, 0, 0)
    /\ triangle = COLOR_GAMUT_B
    /\ edge = 0
    /\ flag = FALSE
    /\ point = GamutPoint(Zero, Zero)
    /\ hist = <<>>
    /\ lights = <<>>
    /\ requests = <<>>
    /\ result = "Ok"
    /\ last_call = <<>>

\* XY::from_rgb(rgb)
CallFromRgb ==
    /\ op = "new"
    /\ op' = "from_rgb"
    /\ \E libm \in LibmCallsFor(gamma_powf_bases(rgb_in)) :
            self_xy' = from_rgb(rgb_in, toolchain, libm)
    /\ UNCHANGED <<toolchain, geomVars, convVars, hueVars>>

\* RGB::from_xy(xy) on the XY that from_rgb returned
CallFromXyOfFromRgb ==
    /\ op = "from_rgb"
    /\ op' = "from_xy"
    /\ \E libm \in LibmCallsFor(powf_bases(from_xy_wide(self_xy))) :
            scaled' = from_xy_scaled(self_xy, libm)
    /\ rgb_out' = cast_channels(scaled', toolchain)
    /\ UNCHANGED <<self_xy, rgb_in, toolchain, geomVars, hueVars>>

NextRgb == CallFromRgb \/ CallFromXyOfFromRgb

SpecRgb == InitRgb /\ [][NextRgb]_vars

----------------------------------------------------------------------------
(* hue.rs: Hue::set_color_by_index_and_rgb *)

\* How `{}` writes an f32: NaN and the infinities by name, a finite value as
\* the shortest decimal that reads back as that value, which stands here as
\* the value itself.
FmtF32(v) ==
    IF IsNaN(v) THEN "NaN"
    ELSE IF v = Inf THEN "inf"
    ELSE IF v = NegInf THEN "-inf"
    ELSE v

\* XY::xy_string(&self): "[x, y]", as the two numbers written
xy_string(self) == <<FmtF32(self.x), FmtF32(self.y)>>

\* The match on color_gamut_lookup with None adjusted for gamut B.
gamut_match_default_b(self, modelid) ==
    LET lookup == color_gamut_lookup(modelid)
    IN  IF lookup = "A" THEN adjust_for_gamut(self, COLOR_GAMUT_A)
        ELSE IF lookup = "C" THEN adjust_for_gamut(self, COLOR_GAMUT_C)
        ELSE adjust_for_gamut(self, COLOR_GAMUT_B)

\* set_color_by_index_and_rgb: the match on color_gamut_lookup of the light's
\* modelid, applied to the XY that from_rgb returned
gamut_match(self, modelid) ==
    LET lookup == color_gamut_lookup(modelid)
    IN  IF lookup = "A" THEN adjust_for_gamut(self, COLOR_GAMUT_A)
        ELSE IF lookup = "B" THEN adjust_for_gamut(self, COLOR_GAMUT_B)
        ELSE IF lookup = "C" THEN adjust_for_gamut(self, COLOR_GAMUT_C)
        ELSE self

\* struct Light, the field the color path reads
Light(modelid) == [modelid |-> modelid]

\* The model identifiers of color_gamut_lookup's table, and two it lacks.
TableA == {"LST001", "LLC005", "LLC006", "LLC007", "LLC010",
           "LLC011", "LLC012", "LLC013", "LLC014"}
TableB == {"LCT001", "LCT002", "LCT003", "LMM001"}
TableC == {"LCT010", "LCT011", "LCT014", "LCT015", "LCT016",
           "LLC020", "LST002", "LCT012"}
ModelIds == TableA \cup TableB \cup TableC \cup {"WRONG", ""}
\* The identifiers of the unit test gamut_lookup.
TestModelIds == {"LLC007", "LCT003", "LST002", "WRONG"}

\* Hue.lights as get_lights can fill it: one light of any model, or two
\* lights of the models of the unit test.
LightMaps ==
    {[i \in {"1"} |-> Light(m)] : m \in ModelIds}
        \cup {[i \in {"1", "2"} |-> Light(IF i = "1" THEN t[1] ELSE t[2])] :
                  t \in TestModelIds \X TestModelIds}

\* The indexes asked for: "3" is no key of any of the maps.
Indexes == {"1", "2", "3"}

\* The colors asked for: black, white, blue, and the second color of the
\* unit test rgb_to_xy.
Colors == {RGB(0, 0, 0), RGB(255, 255, 255), RGB(0, 0, 255), RGB(100, 10, 100)}

\* XY::from_rgb on the colors asked for, in either build and with either
\* rounding of each powf that rounds, computed once.
FromRgbTable ==
    UNION {{[color |-> c, build |-> b, xy |-> from_rgb(c, b, libm)] :
                b \in Builds, libm \in LibmCallsFor(gamma_powf_bases(c))} :
           c \in Colors}

\* gamut_match on each of them for each modelid a light can have, computed
\* once: raw is the XY as from_rgb returned it, adjusted the XY after the
\* match.
MatchTable ==
    {[color |-> t.color, build |-> t.build, modelid |-> m, raw |-> t.xy,
      adjusted |-> gamut_match(t.xy, m)] :
         t \in FromRgbTable, m \in ModelIds \cup TestModelIds}

\* What from_rgb and gamut_match can make of a color in a build for a light.
FromRgbOf(c, b, m) ==
    {t \in MatchTable : t.color = c /\ t.build = b /\ t.modelid = m}

\* So many requests are sent in one behaviour.
MaxRequests == 1

InitHue ==
    /\ lights \in LightMaps
    /\ toolchain \in Builds
    /\ requests = <<>>
    /\ result = "Ok"
    /\ last_call = <<>>
    /\ op = "new"
    /\ self_xy = XY(Zero, Zero, 0)
    /\ scaled = <<Zero, Zero, Zero>>
    /\ rgb_out = RGB(0, 0, 0)
    /\ rgb_in = RGB(0, 0, 0)
    /\ triangle = COLOR_GAMUT_B
    /\ edge = 0
    /\ flag = FALSE
    /\ point = GamutPoint(Zero, Zero)
    /\ hist = <<>>

\* set_color_by_index_and_rgb after the check of the index, from the XY that
\* from_rgb returned and the XY after the match.  A request is written down
\* as it is put on the wire: the light of the url, the body's bri and xy,
\* and, to tell what was computed from, the color, the light's modelid,
\* what color_gamut_lookup returned for it and the XY as from_rgb returned
\* it.  `sent` is whether send() came back without an error.
color_request(self, index, color, t) ==
    [index |-> index,
     bri |-> t.adjusted.brightness,
     xy |-> xy_string(t.adjusted),
     color |-> color,
     modelid |-> self[index].modelid,
     lookup |-> color_gamut_lookup(self[index].modelid),
     raw |-> t.raw]

PutState(index, color, sent, t) ==
    /\ self_xy' = t.adjusted
    /\ requests' = Append(requests, color_request(lights, index, color, t))
    /\ result' = IF sent THEN "Ok" ELSE "send failed"

\* Hue::set_color_by_index_and_rgb(index, color)
SetColorByIndexAndRgb(index, color, sent) ==
    /\ Len(requests) < MaxRequests
    /\ op' = "set_color_by_index_and_rgb"
    /\ last_call' = [index |-> index, rgb |-> color]
    /\ IF index \notin DOMAIN lights
       THEN /\ result' = "Light index does not exist"
            /\ UNCHANGED <<self_xy, requests>>
       ELSE \E t \in FromRgbOf(color, toolchain, lights[index].modelid) :
                PutState(index, color, sent, t)
    /\ UNCHANGED <<lights, toolchain, geomVars, convVars>>

NextHue ==
    \E index \in Indexes, color \in Colors, sent \in BOOLEAN :
        SetColorByIndexAndRgb(index, color, sent)

SpecHue == InitHue /\ [][NextHue]_vars

----------------------------------------------------------------------------
(* hue.rs: Hue::set_color_by_index_and_color *)

\* The colors of the palettes, by name.
NamedColor(name) ==
    IF name = "black" THEN RGB(0, 0, 0)
    ELSE IF name = "white" THEN RGB(255, 255, 255)
    ELSE IF name = "blue" THEN RGB(0, 0, 255)
    ELSE RGB(100, 10, 100)

\* What load_colors_from_file can return: an error, or the map of the file,
\* which here is one of: no color, white only, four colors.
Palette(names) == [ok |-> TRUE, map |-> [name \in names |-> NamedColor(name)]]
LoadedColors ==
    {[ok |-> FALSE], Palette({}), Palette({"white"}),
     Palette({"black", "white", "blue", "plum"})}

\* The color names asked for: "mauve" is in none of the palettes.
ColorNames == {"black", "white", "blue", "plum", "mauve"}

\* set_color_by_index_and_color with black sent for a color that the palette
\* lacks.
SetColorByIndexAndColor_black_for_unknown(index, color, colors, sent) ==
    /\ op = "new"
    /\ op' = "set_color_by_index_and_color"
    /\ last_call' = [index |-> index, color |-> color, colors |-> colors,
                     requests_before |-> Len(requests)]
    /\ IF index \notin DOMAIN lights
       THEN /\ result' = "Light index does not exist"
            /\ UNCHANGED <<self_xy, requests>>
       ELSE IF ~colors.ok
       THEN /\ result' = "colors file not loaded"
            /\ UNCHANGED <<self_xy, requests>>
       ELSE IF color \notin DOMAIN colors.map
       THEN \E t \in FromRgbOf(RGB(0, 0, 0), toolchain,
                                 lights[index].modelid) :
                PutState(index, RGB(0, 0, 0), sent, t)
       ELSE \E t \in FromRgbOf(colors.map[color], toolchain,
                                 lights[index].modelid) :
                PutState(index, colors.map[color], sent, t)
    /\ UNCHANGED <<lights, toolchain, geomVars, convVars>>

\* Hue::set_color_by_index_and_color(index, color), the call of
\* set_color_by_index_and_rgb at its end included, as main calls it: once,
\* on a Hue just constructed.  `colors` is what load_colors_from_file
\* returns to this call.
SetColorByIndexAndColor(index, color, colors, sent) ==
    /\ op = "new"
    /\ op' = "set_color_by_index_and_color"
    /\ last_call' = [index |-> index, color |-> color, colors |-> colors,
                     requests_before |-> Len(requests)]
    /\ IF index \notin DOMAIN lights
       THEN /\ result' = "Light index does not exist"
            /\ UNCHANGED <<self_xy, requests>>
       ELSE IF ~colors.ok
       THEN /\ result' = "colors file not loaded"
            /\ UNCHANGED <<self_xy, requests>>
       ELSE IF color \notin DOMAIN colors.map
       THEN /\ result' = "Color value not set"
            /\ UNCHANGED <<self_xy, requests>>
       ELSE \E t \in FromRgbOf(colors.map[color], toolchain,
                                 lights[index].modelid) :
                PutState(index, colors.map[color], sent, t)
    /\ UNCHANGED <<lights, toolchain, geomVars, convVars>>

----------------------------------------------------------------------------
(* hue.rs: Hue::toggle_lights *)

\* struct LightState, the fields toggle_lights and power read
LightState(on, reachable) == [on |-> on, reachable |-> reachable]

\* struct Light with its state
LightWithState(modelid, on, reachable) ==
    [modelid |-> modelid, state |-> LightState(on, reachable)]

\* So many lights has the bridge at most.
MaxLights == 3

\* get_lights numbers the lights from 1: index.to_string()
IndexName(k) == <<"1", "2", "3", "4", "5">>[k]

\* Hue.lights as get_lights can fill it: up to MaxLights lights, each on or
\* off, reachable or not.
PoweredLightMaps ==
    UNION {[{IndexName(k) : k \in 1..n} ->
               {LightWithState("LCT003", on, reachable) :
                    on \in BOOLEAN, reachable \in BOOLEAN}] :
              n \in 0..MaxLights}

\* The orders in which `for (index, light) in &self.lights` can visit the
\* keys of a HashMap: any.
Orders(keys) ==
    {o \in [1..Cardinality(keys) -> keys] :
        \A i, j \in 1..Cardinality(keys) : o[i] = o[j] => i = j}

InitToggle ==
    /\ lights \in PoweredLightMaps
    /\ requests = <<>>
    /\ result = "Ok"
    /\ last_call = <<>>
    /\ op = "new"
    /\ toolchain = "saturating"
    /\ self_xy = XY(Zero, Zero, 0)
    /\ scaled = <<Zero, Zero, Zero>>
    /\ rgb_out = RGB(0, 0, 0)
    /\ rgb_in = RGB(0, 0, 0)
    /\ triangle = COLOR_GAMUT_B
    /\ edge = 0
    /\ flag = FALSE
    /\ point = GamutPoint(Zero, Zero)
    /\ hist = <<>>

\* power with `light.state.reachable &&` left out of the condition.
RECURSIVE power_requests_unreachable_too(_, _, _, _)
power_requests_unreachable_too(self, order, power, n) ==
    IF n = 0 THEN <<>>
    ELSE power_requests_unreachable_too(self, order, power, n - 1)
            \o (IF self[order[n]].state.on # power
                THEN <<[index |-> order[n], on |-> power]>>
                ELSE <<>>)

\* Hue::power(&self, power): the requests of the loop over the first n
\* lights that `order` visits, each the light of the url and the body's on
RECURSIVE power_requests(_, _, _, _)
power_requests(self, order, power, n) ==
    IF n = 0 THEN <<>>
    ELSE power_requests(self, order, power, n - 1)
            \o (IF self[order[n]].state.reachable /\ self[order[n]].state.on # power
                THEN <<[index |-> order[n], on |-> power]>>
                ELSE <<>>)

\* Hue::power: `send()?` ends the loop at the first request that fails.
\* ok_count requests go through; the next one, if there is one, is put and
\* fails, and none follows it.
power_sent(all_requests, ok_count) ==
    SubSeq(all_requests, 1,
           IF ok_count < Len(all_requests) THEN ok_count + 1
           ELSE Len(all_requests))
power_result(all_requests, ok_count) ==
    IF ok_count < Len(all_requests) THEN "send failed" ELSE "Ok"

\* toggle_lights: all_off after the loop
all_off(self) ==
    ~\E index \in DOMAIN self :
        self[index].state.reachable /\ self[index].state.on

\* toggle_lights, its last lines: self.power(all_off) and what it returns
PowerState(all_requests, ok_count) ==
    /\ requests' = requests \o power_sent(all_requests, ok_count)
    /\ result' = power_result(all_requests, ok_count)

\* Hue::toggle_lights(&self), as main calls it: once, on a Hue just
\* constructed.  self.lights is not written: &self.
ToggleLights(order, ok_count) ==
    /\ op = "new"
    /\ op' = "toggle_lights"
    /\ PowerState(power_requests(lights, order, all_off(lights), Len(order)),
                  ok_count)
    /\ UNCHANGED <<lights, last_call, self_xy, toolchain, geomVars, convVars>>

NextToggle ==
    \E order \in Orders(DOMAIN lights), ok_count \in 0..MaxLights :
        ToggleLights(order, ok_count)

SpecToggle == InitToggle /\ [][NextToggle]_vars

----------------------------------------------------------------------------
(* hue.rs: Hue::set_all_by_color and Hue::set_color_by_name_and_color *)

\* struct Light with the fields the two loops read besides modelid, and
\* its state; on is read by neither.
NamedLight(modelid, name, on, reachable) ==
    [modelid |-> modelid, name |-> name, state |-> LightState(on, reachable)]

\* The names asked for.
Names == {"a", "b", "c"}

\* A light is "a", on and reachable, "b", off and reachable, or "c", off
\* and not reachable: name, on, reachable.
LightKinds ==
    {<<"a", TRUE, TRUE>>, <<"b", FALSE, TRUE>>, <<"c", FALSE, FALSE>>}

\* The models of the lights: a B, an A, and then lights the table lacks.
ModelAt(index) ==
    IF index = "1" THEN "LCT003" ELSE IF index = "2" THEN "LLC007" ELSE "WRONG"

\* Hue.lights as get_lights can fill it: up to MaxLights lights, each of
\* any kind.
NamedLightsOn(indexes) ==
    {[i \in indexes |-> NamedLight(ModelAt(i), kind[i][1], kind[i][2],
                               kind[i][3])] :
         kind \in [indexes -> LightKinds]}
NamedLightMaps ==
    UNION {NamedLightsOn({IndexName(k) : k \in 1..n}) : n \in 0..MaxLights}

InitColor ==
    /\ lights \in NamedLightMaps
    /\ toolchain \in Builds
    /\ requests = <<>>
    /\ result = "Ok"
    /\ last_call = <<>>
    /\ op = "new"
    /\ self_xy = XY(Zero, Zero, 0)
    /\ scaled = <<Zero, Zero, Zero>>
    /\ rgb_out = RGB(0, 0, 0)
    /\ rgb_in = RGB(0, 0, 0)
    /\ triangle = COLOR_GAMUT_B
    /\ edge = 0
    /\ flag = FALSE
    /\ point = GamutPoint(Zero, Zero)
    /\ hist = <<>>

\* What from_rgb can return for a color in a build: one XY for each rounding
\* of the libm.  Within a call the libm is one, so every light of a loop is
\* sent what was made of one of them.
RawsOf(c, b) ==
    {t.xy : t \in {u \in FromRgbTable : u.color = c /\ u.build = b}}
MatchOf(c, b, m, raw) ==
    CHOOSE t \in FromRgbOf(c, b, m) : t.raw = raw

\* The lights that set_all_by_color and set_color_by_name_and_color call
\* set_color_by_index_and_color for.
reachable_lights(self) == {index \in DOMAIN self : self[index].state.reachable}
lights_named(self, name) == {index \in DOMAIN self : self[index].name = name}

\* One call of set_color_by_index_and_color(index, color) from a loop, with
\* `before` requests put so far: its result, the request it puts and the XY
\* it sends, if any.  `colors` is what load_colors_from_file returns to this
\* call, `sent` whether send() came back without an error, raw what from_rgb
\* returns.
color_call(self, index, color, colors, sent, b, raw, before) ==
    IF index \notin DOMAIN self
    THEN [index |-> index, color |-> color, colors |-> colors,
          requests_before |-> before, put |-> <<>>, xy |-> <<>>,
          result |-> "Light index does not exist"]
    ELSE IF ~colors.ok
    THEN [index |-> index, color |-> color, colors |-> colors,
          requests_before |-> before, put |-> <<>>, xy |-> <<>>,
          result |-> "colors file not loaded"]
    ELSE IF color \notin DOMAIN colors.map
    THEN [index |-> index, color |-> color, colors |-> colors,
          requests_before |-> before, put |-> <<>>, xy |-> <<>>,
          result |-> "Color value not set"]
    ELSE [index |-> index, color |-> color, colors |-> colors,
          requests_before |-> before,
          put |-> <<color_request(self, index, colors.map[color],
                                  MatchOf(colors.map[color], b,
                                          self[index].modelid, raw))>>,
          xy |-> <<MatchOf(colors.map[color], b,
                           self[index].modelid, raw).adjusted>>,
          result |-> IF sent THEN "Ok" ELSE "send failed"]

\* What one call of a loop is given besides the index and the color: the
\* palette that load_colors_from_file returns to it, and whether its send()
\* comes back without an error, which is read only when the palette is
\* loaded and has the color.
CallInput(colors, sent) == [colors |-> colors, sent |-> sent]
OkInputs(color) ==
    {CallInput(colors, TRUE) :
         colors \in {l \in LoadedColors : l.ok /\ color \in DOMAIN l.map}}
ErrInputs(color) ==
    {CallInput(colors, TRUE) :
         colors \in {l \in LoadedColors : ~l.ok \/ color \notin DOMAIN l.map}}
    \cup {CallInput(colors, FALSE) :
         colors \in {l \in LoadedColors : l.ok /\ color \in DOMAIN l.map}}

\* The inputs of the calls that a loop over n lights makes: `?` ends the
\* loop at the first call that returns an error, so every call but the last
\* returns Ok, and the last is the n-th or returns an error.
RECURSIVE OkRuns(_, _)
OkRuns(color, k) ==
    IF k = 0 THEN {<<>>}
    ELSE {Append(run, in) : run \in OkRuns(color, k - 1), in \in OkInputs(color)}
LoopRuns(color, n) ==
    UNION {{Append(run, in) :
                run \in OkRuns(color, k - 1),
                in \in IF k = n THEN OkInputs(color) \cup ErrInputs(color)
                       ELSE ErrInputs(color)} : k \in 1..n}

\* The loop `for (index, light) in &self.lights` with a call of
\* set_color_by_index_and_color for each light selected: `order` is the
\* order in which the walk of the HashMap comes to them, ins the inputs of
\* the calls made, and the calls are those from the j-th on.
RECURSIVE color_calls(_, _, _, _, _, _, _, _)
RECURSIVE color_calls_after(_, _, _, _, _, _, _, _)
color_calls(self, order, color, ins, b, raw, j, before) ==
    IF j > Len(ins) THEN <<>>
    ELSE color_calls_after(self, order, color, ins, b, raw, j,
                           color_call(self, order[j], color, ins[j].colors,
                                      ins[j].sent, b, raw, before))
color_calls_after(self, order, color, ins, b, raw, j, this) ==
    <<this>> \o color_calls(self, order, color, ins, b, raw, j + 1,
                            this.requests_before + Len(this.put))

\* The requests of the calls in the order they were put, and the XYs sent.
RECURSIVE color_requests(_, _)
color_requests(calls, n) ==
    IF n = 0 THEN <<>> ELSE color_requests(calls, n - 1) \o calls[n].put
RECURSIVE color_xys(_, _)
color_xys(calls, n) ==
    IF n = 0 THEN <<>> ELSE color_xys(calls, n - 1) \o calls[n].xy

\* The calls as they are written down: the arguments, the palette loaded,
\* the result, and the number of requests before and after.
call_log(calls) ==
    [j \in 1..Len(calls) |->
        [index |-> calls[j].index, color |-> calls[j].color,
         colors |-> calls[j].colors, result |-> calls[j].result,
         requests_before |-> calls[j].requests_before,
         requests_after |-> calls[j].requests_before + Len(calls[j].put)]]

\* The loop is over: the requests of its calls are out, its result is that
\* of the last call made, Ok when that is the last light's.
PutStates(args, calls) ==
    /\ requests' = requests \o color_requests(calls, Len(calls))
    /\ result' = calls[Len(calls)].result
    /\ self_xy' = IF color_xys(calls, Len(calls)) = <<>> THEN self_xy
                  ELSE color_xys(calls, Len(calls))[
                           Len(color_xys(calls, Len(calls)))]
    /\ last_call' = [args |-> args, calls |-> call_log(calls)]

\* The loop of either function over the lights selected, one at least.
\* Every call of set_color_by_index_and_color loads the palette and looks
\* the color up again; the index is a key of the lights.  The order in which
\* the walk of the HashMap comes to the lights, what each call loads and
\* whether its request goes through are open; the libm is one, so from_rgb
\* returns the same XY to every call.
ColorLoop(args, selected, color) ==
    \E order \in Orders(selected),
       ins \in LoopRuns(color, Cardinality(selected)),
       raw \in RawsOf(NamedColor(color), toolchain) :
        PutStates(args, color_calls(lights, order, color, ins, toolchain,
                                    raw, 1, Len(requests)))

\* Hue::set_all_by_color(&self, color), as main calls it: once, on a Hue
\* just constructed.
SetAllByColor(color) ==
    /\ op = "new"
    /\ op' = "set_all_by_color"
    /\ IF reachable_lights(lights) = {}
       THEN /\ result' = "Ok"
            /\ last_call' = [args |-> [color |-> color], calls |-> <<>>]
            /\ UNCHANGED <<self_xy, requests>>
       ELSE ColorLoop([color |-> color], reachable_lights(lights), color)
    /\ UNCHANGED <<lights, toolchain, geomVars, convVars>>

\* Hue::set_color_by_name_and_color(&self, name, color), as main calls it:
\* on a Hue just constructed, or, with both an index and a name given, after
\* a call of set_color_by_index_and_color that returned Ok.  found stays
\* false exactly when no light has the name.
SetColorByNameAndColor(name, color) ==
    /\ \/ op = "new"
       \/ op = "set_color_by_index_and_color" /\ result = "Ok"
    /\ op' = "set_color_by_name_and_color"
    /\ IF lights_named(lights, name) = {}
       THEN /\ result' = "No light with name found"
            /\ last_call' = [args |-> [name |-> name, color |-> color],
                             calls |-> <<>>]
            /\ UNCHANGED <<self_xy, requests>>
       ELSE ColorLoop([name |-> name, color |-> color],
                      lights_named(lights, name), color)
    /\ UNCHANGED <<lights, toolchain, geomVars, convVars>>

NextColor ==
    \/ \E index \in Indexes, color \in ColorNames, colors \in LoadedColors,
          sent \in BOOLEAN :
           SetColorByIndexAndColor(index, color, colors, sent)
    \/ \E color \in ColorNames : SetAllByColor(color)
    \/ \E name \in Names, color \in ColorNames :
           SetColorByNameAndColor(name, color)

SpecColor == InitColor /\ [][NextColor]_vars

----------------------------------------------------------------------------
(* The predefined gamuts and the points of their boundaries *)

PredefinedGamuts == {COLOR_GAMUT_A, COLOR_GAMUT_B, COLOR_GAMUT_C}

\* The same triangle with green and blue exchanged: the other winding.
Reversed(g) == ColorGamut(g.red, g.blue, g.green)

\* A coordinate of a predefined gamut is a multiple of 2^-UnitExp below 1, and
\* so is a coordinate of an f32 point between two of them: Units is the
\* multiple, a whole number below 2^UnitExp.
UnitExp == 28
Units(f) == f.m * 2^(f.e + UnitExp)

RECURSIVE Gcd(_, _)
Gcd(a, b) == IF b = 0 THEN a ELSE Gcd(b, a % b)

\* n * 2^-UnitExp is an f32: its odd part has no more than 24 bits.
IsF32Units(n) == BitLen(Abs(Canon(n, -UnitExp).m)) <= MantBits

\* The points of the segment from a to b whose coordinates are multiples of
\* 2^-UnitExp, the ends among them, as pairs of multiples: step k of
\* Gcd(dx, dy) equal steps from a to b.
SegmentSteps(ax, ay, dx, dy, n) ==
    {<<ax + k * (dx \div n), ay + k * (dy \div n)>> : k \in 0..n}
SegmentUnits(a, b) ==
    SegmentSteps(Units(a.x), Units(a.y),
                 Units(b.x) - Units(a.x), Units(b.y) - Units(a.y),
                 Gcd(Abs(Units(b.x) - Units(a.x)), Abs(Units(b.y) - Units(a.y))))

\* Every f32 point on the segment from a to b.
SegmentPoints(a, b) ==
    {GamutPoint(Fin(u[1], -UnitExp), Fin(u[2], -UnitExp)) :
        u \in {w \in SegmentUnits(a, b) : IsF32Units(w[1]) /\ IsF32Units(w[2])}}

\* Every f32 point on the boundary of g.
BoundaryPoints(g) ==
    UNION {SegmentPoints(EdgeFrom(g, i), EdgeTo(g, i)) : i \in 1..3}

BoundaryCases ==
    UNION {{<<g, XY(p.x, p.y, br)>> : p \in BoundaryPoints(g), br \in Brightness} :
              g \in PredefinedGamuts \cup {Reversed(h) : h \in PredefinedGamuts}}

InitBoundary ==
    /\ \E c \in BoundaryCases :
          /\ triangle = c[1]
          /\ self_xy = c[2]
    /\ op = "new"
    /\ edge = 0
    /\ flag = FALSE
    /\ point = GamutPoint(Zero, Zero)
    /\ hist = <<>>
    /\ toolchain = "saturating"
    /\ scaled = <<Zero, Zero, Zero>>
    /\ rgb_out = RGB(0, 0, 0)
    /\ rgb_in = RGB(0, 0, 0)
    /\ lights = <<>>
    /\ requests = <<>>
    /\ result = "Ok"
    /\ last_call = <<>>

SpecBoundary == InitBoundary /\ [][Next]_vars

----------------------------------------------------------------------------
(* Exact plane geometry on the inputs *)

\* The inputs of Spec are multiples of 1/2, so twice a coordinate is a whole
\* number and the predicates below are computed in whole numbers, apart from
\* the f32 code they are compared with.
Twice(f) == f.m * 2^(f.e + 1)

\* Four times the cross product (b - a) x (p - a): positive when p is to the
\* left of the line from a to b.
Cross4(a, b, p) ==
    (Twice(b.x) - Twice(a.x)) * (Twice(p.y) - Twice(a.y))
        - (Twice(b.y) - Twice(a.y)) * (Twice(p.x) - Twice(a.x))

\* Four times the squared length of the edge from a to b.
Len4(a, b) ==
    (Twice(b.x) - Twice(a.x)) * (Twice(b.x) - Twice(a.x))
        + (Twice(b.y) - Twice(a.y)) * (Twice(b.y) - Twice(a.y))

\* Eight times the signed area of the triangle: positive when red, green,
\* blue run anticlockwise.
Area8(g) == Cross4(g.red, g.green, g.blue)

NonDegenerate(g) == Area8(g) # 0

DistinctVertices(g) == g.red # g.green /\ g.green # g.blue /\ g.blue # g.red

FinitePoint(p) == IsFinite(p.x) /\ IsFinite(p.y)

\* p is in the open triangle: strictly on the inner side of all three edges.
StrictlyInside(g, p) ==
    \A i \in 1..3 : Cross4(EdgeFrom(g, i), EdgeTo(g, i), p) * Sgn(Area8(g)) > 0

\* p is off the closed triangle: strictly on the outer side of some edge.
StrictlyOutside(g, p) ==
    \E i \in 1..3 : Cross4(EdgeFrom(g, i), EdgeTo(g, i), p) * Sgn(Area8(g)) < 0

IsPow2(n) == n > 0 /\ 2^(BitLen(n) - 1) = n

\* The distance from p to the line of edge i is at most that to the line of
\* edge j: |cross_i| / len_i <= |cross_j| / len_j, squared and cross
\* multiplied.
NoFartherThan(g, p, i, j) ==
    LET ci == Cross4(EdgeFrom(g, i), EdgeTo(g, i), p)
        cj == Cross4(EdgeFrom(g, j), EdgeTo(g, j), p)
    IN  ci * ci * Len4(EdgeFrom(g, j), EdgeTo(g, j))
            <= cj * cj * Len4(EdgeFrom(g, i), EdgeTo(g, i))

----------------------------------------------------------------------------
(* Geometry of an f32 result, to a tolerance *)

\* What an f32 result may be off by: 2^-16, some hundred times the rounding
\* error of the operations on the inputs of Spec.
Tol == Fin(1, -16)

AbsF(x) == IF IsFinite(x) /\ x.m < 0 THEN Neg(x) ELSE x
NearZero(x) == Le(AbsF(x), Tol)

\* (b - a) x (p - a) and (b - a) . (p - a), in f32
CrossF(a, b, p) ==
    Sub(Mul(Sub(b.x, a.x), Sub(p.y, a.y)), Mul(Sub(b.y, a.y), Sub(p.x, a.x)))
DotF(a, b, p) ==
    Add(Mul(Sub(b.x, a.x), Sub(p.x, a.x)), Mul(Sub(b.y, a.y), Sub(p.y, a.y)))

\* p is on the line through a and b
OnLine(a, b, p) == NearZero(CrossF(a, b, p))

\* p is on the segment from a to b: on the line, between the end points
OnSegment(a, b, p) ==
    /\ OnLine(a, b, p)
    /\ Le(Neg(Tol), DotF(a, b, p))
    /\ Le(DotF(a, b, p), Add(DotF(a, b, b), Tol))

\* p is on the line through a and b, and off the segment by a clear margin
BeyondSegment(a, b, p) ==
    /\ OnLine(a, b, p)
    /\ \/ Lt(DotF(a, b, p), Neg(Tol))
       \/ Lt(Add(DotF(a, b, b), Tol), DotF(a, b, p))

\* p is in the closed triangle g
OnOrInside(g, p) ==
    \A i \in 1..3 :
        LET c == CrossF(EdgeFrom(g, i), EdgeTo(g, i), p)
        IN  IF Area8(g) > 0 THEN Le(Neg(Tol), c) ELSE Le(c, Tol)

OnSomeEdge(g, p) == \E i \in 1..3 : OnSegment(EdgeFrom(g, i), EdgeTo(g, i), p)

PointOf(v) == GamutPoint(v.x, v.y)

----------------------------------------------------------------------------
(* C1 *)

\* C1: for a gamut triangle of non-zero area, adjust_for_gamut leaves (x, y)
\* on or inside the triangle, and for a point outside it the point that
\* closest_point returns is on one of the three edge segments.
C1_AdjustedPointInGamut ==
    (Len(hist) >= 1 /\ NonDegenerate(triangle)) =>
        /\ OnOrInside(triangle, PointOf(hist[1].after))
        /\ StrictlyOutside(triangle, PointOf(hist[1].before)) =>
               OnSomeEdge(triangle, PointOf(hist[1].after))

\* What the code does instead: the adjusted point is the foot of the
\* perpendicular on the line of an edge, which can be past the edge's end.
C1_AdjustedPointOnEdgeLine ==
    (Len(hist) >= 1 /\ NonDegenerate(triangle) /\ ~hist[1].inside) =>
        \E i \in 1..3 :
            OnLine(EdgeFrom(triangle, i), EdgeTo(triangle, i), PointOf(hist[1].after))

C1_Outside ==
    /\ Len(hist) >= 1
    /\ NonDegenerate(triangle)
    /\ StrictlyOutside(triangle, PointOf(hist[1].before))
    /\ \E i \in 1..3 :
          BeyondSegment(EdgeFrom(triangle, i), EdgeTo(triangle, i), PointOf(hist[1].after))
    /\ ~OnOrInside(triangle, PointOf(hist[1].after))

----------------------------------------------------------------------------
(* C2 *)

\* C2: adjust_for_gamut leaves x and y as they are when point_in_gamut reports
\* the point inside, sets them to the result of closest_point otherwise, and
\* leaves brightness as it is in both cases.
C2_AdjustFrame ==
    \A i \in 1..Len(hist) :
        LET before == hist[i].before
            after == hist[i].after
        IN  /\ after.brightness = before.brightness
            /\ IF point_in_gamut(triangle, PointOf(before))
               THEN after.x = before.x /\ after.y = before.y
               ELSE PointOf(after) = closest_point(triangle, PointOf(before))

\* On a gamut of non-zero area: a first call that moved the point, a second
\* that found it inside and left it alone, the brightness of 254 kept through
\* both.
C2_Witness ==
    /\ NonDegenerate(triangle)
    /\ Len(hist) = 2
    /\ ~hist[1].inside
    /\ PointOf(hist[1].after) # PointOf(hist[1].before)
    /\ hist[2].inside
    /\ hist[2].after = hist[2].before
    /\ self_xy.brightness = 254

----------------------------------------------------------------------------
(* C3 *)

\* C3: adjust_for_gamut is idempotent on a gamut of non-zero area: the second
\* call leaves (x, y, brightness) as the first call left them, and it is a
\* no-op because point_in_gamut now reports the point inside.
C3_AdjustIdempotent ==
    (Len(hist) >= 2 /\ NonDegenerate(triangle)) =>
        /\ hist[2].after = hist[1].after
        /\ hist[2].inside

----------------------------------------------------------------------------
(* C4 *)

ProjOn(g, p, i) == closest_point_on_line(p, EdgeFrom(g, i), EdgeTo(g, i))
DistOn(g, p, i) == distance_to(p, ProjOn(g, p, i))

\* The projection on edge i is at the least distance_to from p, and no
\* edge before it, in the order red-green, green-blue, blue-red, is at that
\* distance.
FirstNearest(g, p, i) ==
    /\ \A j \in 1..3 : Le(DistOn(g, p, i), DistOn(g, p, j))
    /\ \A j \in 1..(i - 1) : ~Le(DistOn(g, p, j), DistOn(g, p, i))

\* What closest_point returned is the nearest of the three projections, the
\* earliest edge's on a tie.  Nearest is meant twice: by the distances the
\* code computes, and by the exact distances from the point to the three
\* lines.
ReturnedNearest ==
    \E i \in 1..3 :
        /\ FirstNearest(triangle, PointOf(self_xy), i)
        /\ point = ProjOn(triangle, PointOf(self_xy), i)
        /\ \A j \in 1..3 : NoFartherThan(triangle, PointOf(self_xy), i, j)

\* C4: closest_point returns, of the three projections of the query point on
\* the lines red-green, green-blue and blue-red, the one nearest to the query
\* point, and of several at the same distance the one of the earliest edge.
C4_ClosestIsNearestProjection ==
    op = "closest_point" => ReturnedNearest

\* What holds: the same for every gamut whose three vertices are distinct,
\* the flat ones among them.
C4_NearestOnDistinctVertices ==
    (op = "closest_point" /\ DistinctVertices(triangle)) => ReturnedNearest

\* Blue and red are one point and green is another: the projection on
\* blue-red is (NaN, NaN) at a distance of NaN, no comparison with it is
\* true, and (NaN, NaN) is returned though the projection on red-green is a
\* finite point at a finite distance.
C4_EqualVerticesGiveNaN ==
    /\ op = "closest_point"
    /\ triangle.blue = triangle.red
    /\ triangle.green # triangle.red
    /\ FinitePoint(ProjOn(triangle, PointOf(self_xy), 1))
    /\ IsFinite(DistOn(triangle, PointOf(self_xy), 1))
    /\ IsNaN(DistOn(triangle, PointOf(self_xy), 3))
    /\ IsNaN(point.x)
    /\ IsNaN(point.y)

\* A tie in exact arithmetic that is none in f32: the lines green-blue and
\* blue-red are at the same distance from the query point, nearer than
\* red-green, the computed distance to blue-red is the smaller, and the
\* projection on blue-red is returned.
C4_ExactTieLaterEdge ==
    /\ op = "closest_point"
    /\ NonDegenerate(triangle)
    /\ NoFartherThan(triangle, PointOf(self_xy), 2, 3)
    /\ NoFartherThan(triangle, PointOf(self_xy), 3, 2)
    /\ ~NoFartherThan(triangle, PointOf(self_xy), 1, 2)
    /\ Lt(DistOn(triangle, PointOf(self_xy), 3), DistOn(triangle, PointOf(self_xy), 2))
    /\ point = ProjOn(triangle, PointOf(self_xy), 3)
    /\ point # ProjOn(triangle, PointOf(self_xy), 2)

\* Edges 1 and 3 tie, edge 2 is farther, and the projection of edge 1 is
\* returned, which is not that of edge 3.
C4_Witness ==
    /\ op = "closest_point"
    /\ NonDegenerate(triangle)
    /\ DistOn(triangle, PointOf(self_xy), 1) = DistOn(triangle, PointOf(self_xy), 3)
    /\ Lt(DistOn(triangle, PointOf(self_xy), 1), DistOn(triangle, PointOf(self_xy), 2))
    /\ Lt(Zero, DistOn(triangle, PointOf(self_xy), 1))
    /\ point = ProjOn(triangle, PointOf(self_xy), 1)
    /\ point # ProjOn(triangle, PointOf(self_xy), 3)

\* A flat gamut of three distinct vertices: the three lines are one, the
\* three projections one finite point, and it is returned.
C4_WitnessFlat ==
    /\ op = "closest_point"
    /\ DistinctVertices(triangle)
    /\ ~NonDegenerate(triangle)
    /\ FinitePoint(point)
    /\ point # PointOf(self_xy)
    /\ point = ProjOn(triangle, PointOf(self_xy), 1)

----------------------------------------------------------------------------
(* C5 *)

\* C5: closest_point_on_line(p1, p2) returns the foot of the perpendicular
\* from the query point q on the line through p1 and p2, for p1 # p2: the
\* result is on that line and (result - q) is orthogonal to (p2 - p1), to
\* the rounding of f32 and exactly where the division by |p2 - p1|^2 is
\* exact; the foot is not moved to the segment.  q = (1, 2), p1 = (2, 1),
\* p2 = (2, 3) gives (2, 2).
C5_FootOfPerpendicular ==
    (op = "closest_point_on_line" /\ EdgeFrom(triangle, edge) # EdgeTo(triangle, edge)) =>
        LET p1 == EdgeFrom(triangle, edge)
            p2 == EdgeTo(triangle, edge)
            q == PointOf(self_xy)
            cross == CrossF(p1, p2, point)
            dot == Add(Mul(Sub(point.x, q.x), Sub(p2.x, p1.x)),
                       Mul(Sub(point.y, q.y), Sub(p2.y, p1.y)))
        IN  /\ NearZero(cross)
            /\ NearZero(dot)
            /\ IsPow2(Len4(p1, p2)) => (cross \in {Zero, NegZero} /\ dot \in {Zero, NegZero})
            /\ (triangle = TestDiamond /\ edge = 1 /\ q = GamutPoint(FromInt(1), FromInt(2)))
                   => point = GamutPoint(FromInt(2), FromInt(2))

\* A foot of the perpendicular that is off the segment, returned as it is.
C5_Witness ==
    /\ op = "closest_point_on_line"
    /\ EdgeFrom(triangle, edge) # EdgeTo(triangle, edge)
    /\ BeyondSegment(EdgeFrom(triangle, edge), EdgeTo(triangle, edge), point)
    /\ point # PointOf(self_xy)

----------------------------------------------------------------------------
(* C6 *)

\* C6: on a triangle of non-zero area, in either winding, point_in_gamut
\* returns true for a point strictly inside and false for a point strictly
\* outside, and it returns true exactly when the three sign tests agree.
C6_PointInGamut ==
    (op = "point_in_gamut" /\ NonDegenerate(triangle)) =>
        LET p == PointOf(self_xy)
            b1 == sign(p, triangle.red, triangle.green)
            b2 == sign(p, triangle.green, triangle.blue)
            b3 == sign(p, triangle.blue, triangle.red)
        IN  /\ StrictlyInside(triangle, p) => flag
            /\ StrictlyOutside(triangle, p) => ~flag
            /\ flag <=> (b1 = b2 /\ b2 = b3)

\* A point strictly inside a clockwise triangle, reported inside.
C6_Witness ==
    /\ op = "point_in_gamut"
    /\ Area8(triangle) < 0
    /\ StrictlyInside(triangle, PointOf(self_xy))
    /\ flag

\* A point strictly outside an anticlockwise triangle, reported outside.
C6_WitnessOutside ==
    /\ op = "point_in_gamut"
    /\ Area8(triangle) > 0
    /\ StrictlyOutside(triangle, PointOf(self_xy))
    /\ ~flag

----------------------------------------------------------------------------
(* C7 *)

\* C7: color_gamut_lookup returns 'A', 'B' or 'C' for the model identifiers
\* of its table and None for every other string, and when it returns None
\* for the light's modelid the request of set_color_by_index_and_rgb
\* carries the x, y and brightness that from_rgb returned, not adjusted.
C7_LookupMissKeepsXY ==
    \A k \in 1..Len(requests) :
        LET r == requests[k]
        IN  /\ r.lookup \in {"A", "B", "C", "None"}
            /\ r.lookup = "A" <=> r.modelid \in TableA
            /\ r.lookup = "B" <=> r.modelid \in TableB
            /\ r.lookup = "C" <=> r.modelid \in TableC
            /\ r.lookup = "None" =>
                   /\ r.xy = xy_string(r.raw)
                   /\ r.bri = r.raw.brightness

\* Blue sent to a light of an unknown model: from_rgb's point is outside
\* the three gamuts, so any adjustment would have moved it, and it is sent
\* as it is.
C7_Witness ==
    /\ Len(requests) = 1
    /\ requests[1].modelid = "WRONG"
    /\ requests[1].lookup = "None"
    /\ requests[1].color = RGB(0, 0, 255)
    /\ ~point_in_gamut(COLOR_GAMUT_A, PointOf(requests[1].raw))
    /\ ~point_in_gamut(COLOR_GAMUT_B, PointOf(requests[1].raw))
    /\ ~point_in_gamut(COLOR_GAMUT_C, PointOf(requests[1].raw))
    /\ requests[1].xy = <<requests[1].raw.x, requests[1].raw.y>>

----------------------------------------------------------------------------
(* C8 *)

\* C8: the conversion never divides by zero: X + Y + Z is zero for black
\* only, so every other color gives a finite (x, y), and for black the
\* request of set_color_by_index_and_rgb carries a fixed neutral point in
\* place of the quotients X / (X + Y + Z) and Y / (X + Y + Z), which would
\* be 0 / 0.
C8_BlackIsSpecialCased ==
    \A k \in 1..Len(requests) :
        LET r == requests[k]
        IN  IF r.color = RGB(0, 0, 0)
            THEN r.xy[1] # "NaN" /\ r.xy[2] # "NaN"
            ELSE IsFinite(r.raw.x) /\ IsFinite(r.raw.y)

\* What the code does for the colors other than black.
C8_OtherColorsFinite ==
    \A k \in 1..Len(requests) :
        requests[k].color # RGB(0, 0, 0) =>
            IsFinite(requests[k].raw.x) /\ IsFinite(requests[k].raw.y)

\* What the code does for black: 0 / 0 twice, and the request says so.
C8_BlackSendsNaN ==
    /\ Len(requests) = 1
    /\ requests[1].color = RGB(0, 0, 0)
    /\ IsNaN(requests[1].raw.x)
    /\ IsNaN(requests[1].raw.y)
    /\ requests[1].xy = <<"NaN", "NaN">>
    /\ result = "Ok"

----------------------------------------------------------------------------
(* C9 *)

\* C9: RGB::from_xy fails with a DomainError whenever y = 0, whatever x and
\* brightness are: there is no state in which it has returned an RGB for
\* such an input.
C9_ZeroYFails ==
    self_xy.y \in {Zero, NegZero} => op # "from_xy"

\* What the code does: brightness / 0 is an infinity or NaN, and the casts
\* make an RGB of it.
C9_ZeroYReturnsRGB ==
    /\ op = "from_xy"
    /\ self_xy.y = Zero
    /\ self_xy.brightness = 254
    /\ scaled = <<NaN, NaN, Inf>>
    /\ rgb_out = RGB(0, 0, IF toolchain = "saturating" THEN 255 ELSE 0)

----------------------------------------------------------------------------
(* C10 *)

\* v truncated toward zero and clamped to 0..255, for v other than NaN.
Clamped(v) ==
    IF v = Inf THEN 255
    ELSE IF v = NegInf THEN 0
    ELSE IF ~FitsI32(v) THEN (IF v.m < 0 THEN 0 ELSE 255)
    ELSE IF Trunc(v) < 0 THEN 0
    ELSE IF Trunc(v) > 255 THEN 255
    ELSE Trunc(v)

\* C10: each channel that from_xy returns is the gamma-decoded value times
\* 255, truncated toward zero and clamped to 0..255: 0 for a negative value,
\* 255 for a value above 255, never the value modulo 256.
C10_ChannelsClamped ==
    op = "from_xy" =>
        /\ ~IsNaN(scaled[1]) => rgb_out.r = Clamped(scaled[1])
        /\ ~IsNaN(scaled[2]) => rgb_out.g = Clamped(scaled[2])
        /\ ~IsNaN(scaled[3]) => rgb_out.b = Clamped(scaled[3])

\* The build in which the cast saturates does clamp.
C10_SaturatingBuildClamps ==
    (op = "from_xy" /\ toolchain = "saturating") =>
        /\ ~IsNaN(scaled[1]) => rgb_out.r = Clamped(scaled[1])
        /\ ~IsNaN(scaled[2]) => rgb_out.g = Clamped(scaled[2])
        /\ ~IsNaN(scaled[3]) => rgb_out.b = Clamped(scaled[3])

\* The unit test xy_to_rgb in the build it was written for: 1169.4 comes
\* out as 1169 mod 256 = 145.
C10_TestWraps ==
    /\ op = "from_xy"
    /\ toolchain = "truncating"
    /\ self_xy = TestXY
    /\ Trunc(scaled[1]) = 1169
    /\ rgb_out = RGB(145, 145, 145)

----------------------------------------------------------------------------
(* C11 *)

\* Y * 254 as from_rgb computes it in f32, before the cast, from the gamma
\* corrected r, g and b.
Y254(r, g, b) ==
    Mul(Add(Add(Mul(r, Dec(283881, 1000000)), Mul(g, Dec(668433, 1000000))),
            Mul(b, Dec(47685, 1000000))),
        FromInt(254))

\* The whole number nearest to a finite v >= 0, a half rounded up.
Nearest(v) ==
    IF v.e >= 0 THEN Trunc(v)
    ELSE IF -v.e > 30 THEN 0
    ELSE Trunc(v) + (IF 2 * (v.m % 2^(-v.e)) >= 2^(-v.e) THEN 1 ELSE 0)

\* n clamped to 0..254.
Clamp254(n) == IF n < 0 THEN 0 ELSE IF n > 254 THEN 254 ELSE n

\* from_rgb has returned self_xy from the gamma corrected r, g and b, and
\* the brightness in it is Y * 254 rounded to the nearest whole number and
\* clamped to 0..254.
RoundedFrom(r, g, b) ==
    /\ self_xy = wide_rgb_to_xy(r, g, b, toolchain)
    /\ self_xy.brightness = Clamp254(Nearest(Y254(r, g, b)))

\* The same with Y * 254 rounded toward zero.
TruncatedFrom(r, g, b) ==
    /\ self_xy = wide_rgb_to_xy(r, g, b, toolchain)
    /\ self_xy.brightness = Trunc(Y254(r, g, b))
    /\ self_xy.brightness \in 0..254

\* C11: the brightness that from_rgb returns is Y * 254 rounded to the
\* nearest whole number and clamped to 0..254, Y being that of the gamma
\* corrected channels the call computed.
C11_BrightnessIsRounded ==
    op = "from_rgb" =>
        \E libm \in LibmCallsFor(gamma_powf_bases(rgb_in)) :
            RoundedFrom(Gamma(rgb_in.r, libm[1]), Gamma(rgb_in.g, libm[2]),
                        Gamma(rgb_in.b, libm[3]))

\* What the code does: the brightness is Y * 254 rounded toward zero, which
\* is within 0..254 for every RGB.
C11_BrightnessIsTruncated ==
    op = "from_rgb" =>
        \E libm \in LibmCallsFor(gamma_powf_bases(rgb_in)) :
            TruncatedFrom(Gamma(rgb_in.r, libm[1]), Gamma(rgb_in.g, libm[2]),
                          Gamma(rgb_in.b, libm[3]))

\* White: each channel is 1, whatever the libm, Y * 254 is just below 254
\* and the brightness is 253.
C11_WhiteIs253 ==
    /\ op = "from_rgb"
    /\ rgb_in = RGB(255, 255, 255)
    /\ Nearest(Y254(One, One, One)) = 254
    /\ \A libm \in Libms : Gamma(255, libm) = One
    /\ self_xy.brightness = 253

----------------------------------------------------------------------------
(* C12 *)

\* C12: closest_point returns no point for a gamut of zero area: the call
\* fails instead.
C12_DegenerateIsRejected ==
    op = "closest_point" => NonDegenerate(triangle)

\* What the code does.  The divisor of closest_point_on_line is the squared
\* length of the edge, so the division is by zero exactly on an edge whose
\* ends are equal, and the projection is then (NaN, NaN); a flat triangle
\* with three distinct vertices is divided by no zero, and closest_point
\* returns a finite point for it.
C12_ZeroDivisorIsZeroLengthEdge ==
    /\ op = "closest_point_on_line" =>
          /\ EdgeFrom(triangle, edge) = EdgeTo(triangle, edge)
                => IsNaN(point.x) /\ IsNaN(point.y)
          /\ EdgeFrom(triangle, edge) # EdgeTo(triangle, edge)
                => FinitePoint(point)
    /\ (op = "closest_point" /\ DistinctVertices(triangle))
          => FinitePoint(point)

\* closest_point has returned a finite point for a flat triangle with three
\* distinct vertices.
C12_FlatTriangleProjects ==
    /\ op = "closest_point"
    /\ ~NonDegenerate(triangle)
    /\ DistinctVertices(triangle)
    /\ FinitePoint(point)
    /\ point # PointOf(self_xy)

\* closest_point has returned (NaN, NaN) for a triangle whose three vertices
\* are one point; adjust_for_gamut has stored it in the XY.
C12_PointTriangleGivesNaN ==
    /\ triangle.red = triangle.green /\ triangle.green = triangle.blue
    /\ \/ op = "closest_point" /\ IsNaN(point.x) /\ IsNaN(point.y)
       \/ op = "adjust_for_gamut" /\ IsNaN(self_xy.x) /\ IsNaN(self_xy.y)

----------------------------------------------------------------------------
(* C13 *)

\* The product of two whole numbers below 2^29, as <<hi, lo>> with the value
\* hi * 2^30 + lo and lo < 2^30: the factors are split at 2^15 so that no
\* step leaves 32 bits.
WideLow(a, b) ==
    (((a \div 2^15) * (b % 2^15) + (a % 2^15) * (b \div 2^15)) % 2^15) * 2^15
        + (a % 2^15) * (b % 2^15)
WideProduct(a, b) ==
    <<(a \div 2^15) * (b \div 2^15)
          + ((a \div 2^15) * (b % 2^15) + (a % 2^15) * (b \div 2^15)) \div 2^15
          + WideLow(a, b) \div 2^30,
      WideLow(a, b) % 2^30>>

\* The sign of p - q for two such products.
WideCompare(p, q) ==
    IF p[1] # q[1] THEN Sgn(p[1] - q[1]) ELSE Sgn(p[2] - q[2])

\* The sign of a * b - c * d, for whole numbers of magnitude below 2^29.
SignOfDifference(a, b, c, d) ==
    IF Sgn(a) * Sgn(b) # Sgn(c) * Sgn(d)
    THEN Sgn(Sgn(a) * Sgn(b) - Sgn(c) * Sgn(d))
    ELSE Sgn(a) * Sgn(b)
            * WideCompare(WideProduct(Abs(a), Abs(b)), WideProduct(Abs(c), Abs(d)))

\* The sign of the cross product (b - a) x (p - a), exactly, for points with
\* coordinates that are multiples of 2^-UnitExp below 1.
ExactSide(a, b, p) ==
    SignOfDifference(Units(b.x) - Units(a.x), Units(p.y) - Units(a.y),
                     Units(b.y) - Units(a.y), Units(p.x) - Units(a.x))

\* The sign of the signed area of g: 1 when red, green, blue run
\* anticlockwise, -1 when clockwise, 0 when the area is zero.
Orientation(g) == ExactSide(g.red, g.green, g.blue)

\* C13: each of COLOR_GAMUT_A, COLOR_GAMUT_B and COLOR_GAMUT_C has an area
\* other than zero, and red, green, blue run the same way round in all
\* three: a call made with one of them is made with such a triangle.
C13_SameWinding ==
    triangle \in PredefinedGamuts =>
        /\ Orientation(triangle) # 0
        /\ \A g \in PredefinedGamuts : Orientation(g) = Orientation(triangle)

\* point_in_gamut has been called with COLOR_GAMUT_C, the thinnest of the
\* three, whose vertices run anticlockwise as those of A and B do.
C13_Witness ==
    /\ op = "point_in_gamut"
    /\ triangle = COLOR_GAMUT_C
    /\ Orientation(COLOR_GAMUT_A) = 1
    /\ Orientation(COLOR_GAMUT_B) = 1
    /\ Orientation(COLOR_GAMUT_C) = 1
    /\ Orientation(Reversed(COLOR_GAMUT_C)) = -1

----------------------------------------------------------------------------
(* C14 *)

\* The cast of v to u8 is a clamping: v is below 0 or above 255.
ClampingApplies(v) == Lt(v, Zero) \/ Lt(FromInt(255), v)

\* The channel that came back is within 2 of the channel that went in, unless
\* the value it was cast from was out of the range of a channel.
CameBack(channel_in, channel_out, v) ==
    ClampingApplies(v) \/ (channel_out - channel_in) \in (-2)..2

\* C14: for every RGB other than (0, 0, 0), from_xy of from_rgb of it has
\* each channel within 2 of the original, except where the channel was
\* clamped at 0 or at 255.
C14_RoundTrip ==
    (op = "from_xy" /\ rgb_in # RGB(0, 0, 0)) =>
        /\ CameBack(rgb_in.r, rgb_out.r, scaled[1])
        /\ CameBack(rgb_in.g, rgb_out.g, scaled[2])
        /\ CameBack(rgb_in.b, rgb_out.b, scaled[3])

\* (100, 10, 100): green comes back as 225, cast from 225.6, in either build.
C14_GreenComesBackAs225 ==
    /\ op = "from_xy"
    /\ rgb_in = RGB(100, 10, 100)
    /\ ~ClampingApplies(scaled[2])
    /\ rgb_out.g = 225

\* (100, 100, 100), the RGB of the unit test rgb_to_xy: the three channels
\* are cast from 1169.4, and come back as 145 in the build in which the cast
\* truncates and as 255 in the build in which it saturates.
C14_GreyComesBackAs145 ==
    /\ op = "from_xy"
    /\ rgb_in = RGB(100, 100, 100)
    /\ self_xy.brightness = 35
    /\ Trunc(scaled[1]) = 1169
    /\ \/ toolchain = "truncating" /\ rgb_out = RGB(145, 145, 145)
       \/ toolchain = "saturating" /\ rgb_out = RGB(255, 255, 255)

----------------------------------------------------------------------------
(* C15 *)

Reachable == {i \in DOMAIN lights : lights[i].state.reachable}
ReachableOn == {i \in Reachable : lights[i].state.on}
Requested == {requests[k].index : k \in 1..Len(requests)}

\* The power state of light i once the bridge has done what it was asked.
PowerAfter(i) ==
    IF i \in Requested
    THEN requests[CHOOSE k \in 1..Len(requests) : requests[k].index = i].on
    ELSE lights[i].state.on

\* C15 as it is stated: toggle_lights asks every reachable light that is on
\* to turn off, or every reachable light to turn on when none is on; no
\* request goes to an unreachable light or to a light that is in that state
\* already; and when every request went through the reachable lights end in
\* one and the same power state.
C15_EveryLightIsAsked ==
    op = "toggle_lights" =>
        /\ Requested = (IF ReachableOn # {} THEN ReachableOn ELSE Reachable)
        /\ \A k \in 1..Len(requests) :
              /\ requests[k].on = (ReachableOn = {})
              /\ requests[k].index \in Reachable
              /\ lights[requests[k].index].state.on # requests[k].on
        /\ result = "Ok" =>
              \A i, j \in Reachable : PowerAfter(i) = PowerAfter(j)

\* C15, amended: toggle_lights asks for off when a reachable light is on and
\* for on when none is; no request goes to an unreachable light or to a
\* light that is in that state already, and no light gets two.  The first
\* request that fails ends the call, so it is when every request went
\* through that the lights asked are all the reachable lights that were on,
\* or all the reachable lights when none was on, and that the reachable
\* lights end in one and the same power state.
C15_ToggleLights ==
    op = "toggle_lights" =>
        /\ \A k \in 1..Len(requests) :
              /\ requests[k].on = (ReachableOn = {})
              /\ requests[k].index \in Reachable
              /\ lights[requests[k].index].state.on # requests[k].on
        /\ Cardinality(Requested) = Len(requests)
        /\ result = "Ok" =>
              /\ Requested = (IF ReachableOn # {} THEN ReachableOn ELSE Reachable)
              /\ \A i, j \in Reachable : PowerAfter(i) = PowerAfter(j)

\* Three lights, one on and reachable, one off and reachable, one on and
\* unreachable: the first has been asked to turn off and no other light has
\* been asked anything.
C15_Witness ==
    /\ op = "toggle_lights"
    /\ result = "Ok"
    /\ Cardinality(DOMAIN lights) = 3
    /\ Cardinality(Reachable) = 2
    /\ Cardinality(ReachableOn) = 1
    /\ \E i \in DOMAIN lights : i \notin Reachable /\ lights[i].state.on
    /\ Len(requests) = 1
    /\ requests[1].index \in ReachableOn
    /\ requests[1].on = FALSE

\* No reachable light on: the two reachable lights have been asked to turn on.
C15_WitnessOn ==
    /\ op = "toggle_lights"
    /\ result = "Ok"
    /\ Cardinality(Reachable) = 2
    /\ ReachableOn = {}
    /\ Len(requests) = 2
    /\ Requested = Reachable
    /\ \A k \in 1..2 : requests[k].on = TRUE

\* A request that fails ends the call: a reachable light that is on has not
\* been asked to turn off.
C15_FailedSendEndsTheLoop ==
    /\ op = "toggle_lights"
    /\ result = "send failed"
    /\ \E i \in ReachableOn : i \notin Requested

----------------------------------------------------------------------------
(* C16 *)

\* The last call was of set_color_by_index_and_color with an index that the
\* lights have and a color that the loaded palette has.
BothLookupsSucceed ==
    /\ last_call.index \in DOMAIN lights
    /\ last_call.colors.ok
    /\ last_call.color \in DOMAIN last_call.colors.map

\* The calls of set_color_by_index_and_color that the last operation made:
\* the call itself, or the calls of the loop of set_all_by_color or
\* set_color_by_name_and_color.
CallsMade ==
    IF op = "set_color_by_index_and_color"
    THEN <<[index |-> last_call.index, color |-> last_call.color,
            colors |-> last_call.colors, result |-> result,
            requests_before |-> last_call.requests_before,
            requests_after |-> Len(requests)]>>
    ELSE IF op \in {"set_all_by_color", "set_color_by_name_and_color"}
    THEN last_call.calls
    ELSE <<>>

\* C16: every call of set_color_by_index_and_color, made by itself or from
\* the loop of set_all_by_color or set_color_by_name_and_color, returns an
\* error and sends nothing when the index is no key of the lights or the
\* color is no key of the palette it loaded; when both are keys it sends one
\* request, to the light of that index and computed from the RGB of that
\* color.  No request is put but by these calls.
C16_SetColorByIndexAndColor ==
    /\ \A k \in 1..Len(CallsMade) :
          IF /\ CallsMade[k].index \in DOMAIN lights
             /\ CallsMade[k].colors.ok
             /\ CallsMade[k].color \in DOMAIN CallsMade[k].colors.map
          THEN /\ CallsMade[k].requests_after
                      = CallsMade[k].requests_before + 1
               /\ requests[CallsMade[k].requests_after].index
                      = CallsMade[k].index
               /\ requests[CallsMade[k].requests_after].color
                      = CallsMade[k].colors.map[CallsMade[k].color]
          ELSE /\ CallsMade[k].result # "Ok"
               /\ CallsMade[k].requests_after = CallsMade[k].requests_before
    /\ \A k \in 2..Len(CallsMade) :
          CallsMade[k].requests_before = CallsMade[k - 1].requests_after
    /\ CallsMade # <<>> =>
          CallsMade[Len(CallsMade)].requests_after = Len(requests)

\* The color is no key of a palette that was loaded, for a light that
\* exists: an error and no request.
C16_Witness ==
    /\ op = "set_color_by_index_and_color"
    /\ last_call.index \in DOMAIN lights
    /\ last_call.colors.ok
    /\ last_call.color \notin DOMAIN last_call.colors.map
    /\ result = "Color value not set"
    /\ requests = <<>>

\* Both are keys: one request, to light "2", for blue.
C16_WitnessSent ==
    /\ op = "set_color_by_index_and_color"
    /\ BothLookupsSucceed
    /\ last_call.index = "2"
    /\ last_call.color = "blue"
    /\ result = "Ok"
    /\ Len(requests) = 1
    /\ requests[1].index = "2"
    /\ requests[1].color = RGB(0, 0, 255)

\* The index is no key of the lights: an error and no request, whatever the
\* palette.
C16_WitnessNoLight ==
    /\ op = "set_color_by_index_and_color"
    /\ last_call.index \notin DOMAIN lights
    /\ last_call.colors.ok
    /\ last_call.color \in DOMAIN last_call.colors.map
    /\ result = "Light index does not exist"
    /\ requests = <<>>

\* In the loop of set_all_by_color: the first call loads a palette that has
\* the color and its request goes out, the second loads one that lacks it
\* and returns the error with no request of its own.
C16_WitnessLaterCallOfLoop ==
    /\ op = "set_all_by_color"
    /\ Len(last_call.calls) = 2
    /\ last_call.calls[1].result = "Ok"
    /\ last_call.calls[2].colors.ok
    /\ last_call.calls[2].color \notin DOMAIN last_call.calls[2].colors.map
    /\ last_call.calls[2].requests_before = 1
    /\ result = "Color value not set"
    /\ Len(requests) = 1

\* A call from the loop of set_color_by_name_and_color after two requests:
\* both lookups succeed and the third request is to its light.
C16_WitnessThirdRequest ==
    /\ op = "set_color_by_name_and_color"
    /\ Len(last_call.calls) = 2
    /\ last_call.calls[2].requests_before = 2
    /\ Len(requests) = 3
    /\ requests[3].index = last_call.calls[2].index
    /\ requests[3].index # requests[2].index

----------------------------------------------------------------------------
(* C17 *)

\* p is on the boundary of g, exactly: on the line of an edge and between
\* its ends.
OnBoundaryExactly(g, p) ==
    \E i \in 1..3 :
        /\ ExactSide(EdgeFrom(g, i), EdgeTo(g, i), p) = 0
        /\ Units(p.x) >= Units(EdgeFrom(g, i).x) \/ Units(p.x) >= Units(EdgeTo(g, i).x)
        /\ Units(p.x) <= Units(EdgeFrom(g, i).x) \/ Units(p.x) <= Units(EdgeTo(g, i).x)
        /\ Units(p.y) >= Units(EdgeFrom(g, i).y) \/ Units(p.y) >= Units(EdgeTo(g, i).y)
        /\ Units(p.y) <= Units(EdgeFrom(g, i).y) \/ Units(p.y) <= Units(EdgeTo(g, i).y)

\* C17: for a point on the boundary of a predefined gamut, point_in_gamut
\* returns true and adjust_for_gamut leaves the XY as it is; for the same
\* point and the same triangle with the other winding, point_in_gamut returns
\* false.
C17_BoundaryIsInside ==
    OnBoundaryExactly(triangle, PointOf(IF hist = <<>> THEN self_xy ELSE hist[1].before)) =>
        /\ op = "point_in_gamut" => flag = (triangle \in PredefinedGamuts)
        /\ (op = "adjust_for_gamut" /\ triangle \in PredefinedGamuts) =>
              \A k \in 1..Len(hist) : hist[k].inside /\ hist[k].after = hist[k].before

\* point_in_gamut has returned true for the green vertex of COLOR_GAMUT_C.
C17_Witness ==
    /\ op = "point_in_gamut"
    /\ triangle = COLOR_GAMUT_C
    /\ PointOf(self_xy) = COLOR_GAMUT_C.green
    /\ OnBoundaryExactly(triangle, PointOf(self_xy))
    /\ flag

\* point_in_gamut has returned false for the same vertex of the same triangle
\* with the other winding.
C17_WitnessReversed ==
    /\ op = "point_in_gamut"
    /\ triangle = Reversed(COLOR_GAMUT_C)
    /\ PointOf(self_xy) = COLOR_GAMUT_C.green
    /\ ~flag

\* adjust_for_gamut has left the blue vertex of COLOR_GAMUT_A where it was,
\* twice.
C17_WitnessAdjust ==
    /\ op = "adjust_for_gamut"
    /\ triangle = COLOR_GAMUT_A
    /\ Len(hist) = 2
    /\ PointOf(hist[1].before) = COLOR_GAMUT_A.blue
    /\ self_xy = hist[1].before


\* The same on the triangles of the grid, whose edges have points between
\* their ends: a point on the boundary of a triangle of non-zero area is
\* reported inside when red, green, blue run anticlockwise, as they do in the
\* predefined gamuts, and outside when they run clockwise.
C17_GridBoundaryFollowsWinding ==
    (/\ op = "point_in_gamut"
     /\ NonDegenerate(triangle)
     /\ ~StrictlyInside(triangle, PointOf(self_xy))
     /\ ~StrictlyOutside(triangle, PointOf(self_xy)))
        => flag = (Area8(triangle) > 0)

\* point_in_gamut has returned false for a point between the ends of an edge
\* of a clockwise triangle.
C17_GridEdgePointOutside ==
    /\ op = "point_in_gamut"
    /\ Area8(triangle) < 0
    /\ ~StrictlyInside(triangle, PointOf(self_xy))
    /\ ~StrictlyOutside(triangle, PointOf(self_xy))
    /\ PointOf(self_xy) \notin {triangle.red, triangle.green, triangle.blue}
    /\ ~flag

=============================================================================
